---- MODULE Spec2Model ----
(***************************************************************************)
(* Adaptive Selection & Evaluation Engine of the mock-interview server:    *)
(* the Question Store cache (questionStore.js), the adaptive selector      *)
(* (questionSelector.js), the rule-based evaluator (feedback.js) and the   *)
(* model-assisted evaluator (answerEvaluator.js).                          *)
(*                                                                         *)
(* Node runs every handler to completion between two awaits, so each       *)
(* action below is one synchronous segment of a handler.  Date.now() is    *)
(* read from the variable now.                                             *)
(***************************************************************************)
EXTENDS Integers, Sequences, FiniteSets, TLC

VARIABLES
    \* ---- Question Bank (table questions) and Question Store ----
    db,             \* rows of table questions, in SELECT order
    questionsCache, \* QuestionStore.questionsCache : None or Some(list of documents)
    lastCacheTime,  \* QuestionStore.lastCacheTime  : None or Some(ms)
    now,            \* the wall clock read by Date.now(), in ms
    builtFrom,      \* history: the rows the cache was last built from (None: never built)
    builtAt,        \* history: the clock value of the last rebuild (None: never built)
    readObs,        \* history: what the read that has just returned saw and got
    filtObs,        \* history: arguments and result of the getFilteredQuestions call that has just returned
    \* ---- configuration (process.env) ----
    aiEnabled,      \* AI_ENABLED === 'true'
    fallbackEnabled,\* AI_FALLBACK_TO_RULES !== 'false'
    \* ---- one selectNextQuestion call of QuestionSelector ----
    selModel,       \* QuestionSelector.model : FALSE is null, TRUE is a created model
    selPc,          \* "idle", "awaiting" (suspended in await chain.invoke), "done"
    selCtx,         \* the sessionContext of the call (None when idle)
    selAvail,       \* availableQuestions, held across the await
    selResult,      \* what the call gave its caller (None until done)
    selModelSaid,   \* how the model call of the selection settled (None if none did):
                    \* rejected, or resolved with a text that names these ids
    \* ---- one evaluateAnswer call of AnswerEvaluator ----
    evModel,        \* AnswerEvaluator.model : FALSE is null, TRUE is a created model
    evPc,           \* "idle", "awaiting" (suspended in await chain.invoke), "done"
    evInput,        \* the answer and the question's expected_keywords (None when idle)
    evRule,         \* ruleEvaluation, held across the await
    evHangs,        \* environment: the pending model call never settles
    evModelSaid,    \* history: how the model call ended (None: not called, or pending)
    evResult,       \* what the call gave its caller (None until done)
    \* ---- one selectQuestionsForSession call of QuestionSelector ----
    batch,          \* None, or the locals of the call: context, count, i, questions, usedIds
    \* ---- the interview routes (routes/interviews.js) and their tables ----
    interviewSessions, \* table interview_sessions: session id -> row
    sessionAnswers, \* table session_answers: rows in insertion order
    sessionFeedback,\* table session_feedback: rows in insertion order
    handlers,       \* the route handlers suspended at an await
    lastResponse    \* history: the response sent last (None before the first)

storeVars == <<db, questionsCache, lastCacheTime, now, builtFrom, builtAt>>
obsVars == <<readObs, filtObs>>
envVars == <<aiEnabled, fallbackEnabled>>
selVars == <<selModel, selPc, selCtx, selAvail, selResult, selModelSaid>>
evVars == <<evModel, evPc, evInput, evRule, evHangs, evModelSaid, evResult>>
appVars == <<batch, interviewSessions, sessionAnswers, sessionFeedback, handlers, lastResponse>>
vars == <<db, questionsCache, lastCacheTime, now, builtFrom, builtAt, readObs, filtObs,
          aiEnabled, fallbackEnabled, selModel, selPc, selCtx, selAvail, selResult,
          selModelSaid,
          evModel, evPc, evInput, evRule, evHangs, evModelSaid, evResult,
          batch, interviewSessions, sessionAnswers, sessionFeedback,
          handlers, lastResponse>>

-----------------------------------------------------------------------------
(* Optional values: JavaScript null / undefined against a present value.   *)
None == <<>>
Some(x) == <<x>>

(* Bounds of the model. *)
MaxBank == 2      \* rows of the bank while it changes under the store
MaxMinutes == 5   \* minutes the clock runs
MaxSelBank == 3   \* rows of the bank the selector and the filter read
MaxExclude == 2   \* ids in excludeIds / answeredQuestionIds
MaxSelRespLen == 3 \* characters of a model response to the selection prompt

(* Program constants. *)
cacheTimeout == 5 * 60 * 1000
MinuteMs == 60 * 1000
StartTime == MinuteMs

-----------------------------------------------------------------------------
(* The question bank.  A row of table questions keeps the columns the      *)
(* store filters on; ids are fixed-length texts (uuid in the program).     *)
Row(id, role, topic, difficulty, category) ==
    [id |-> id, category |-> category, role |-> role, topic |-> topic, difficulty |-> difficulty]

Catalogue ==
    { Row(<<"a","b">>, "frontend", "JavaScript", "easy",   "technical"),
      Row(<<"b","a">>, "frontend", "JavaScript", "hard",   "technical"),
      Row(<<"c","a">>, "backend",  "APIs",       "medium", "technical"),
      Row(<<"c","b">>, "any",      "Teamwork",   "easy",   "behavioral") }

Ids == { r.id : r \in Catalogue }

\* id is the PRIMARY KEY of table questions: a bank holds each id once.
BanksUpTo(k) ==
    { s \in UNION { [1..n -> Catalogue] : n \in 0..k } :
        \A i, j \in 1..Len(s) : i # j => s[i].id # s[j].id }

-----------------------------------------------------------------------------
(* QuestionStore.getAllQuestions                                           *)

\* (mutant) the list is published one row short of the rows read
BuildCachePartial(rows) ==
    [ i \in 1..(Len(rows) - 1) |->
        [ id |-> rows[i].id,
          metadata |-> [ category   |-> rows[i].category,
                         role       |-> rows[i].role,
                         topic      |-> rows[i].topic,
                         difficulty |-> rows[i].difficulty ] ] ]

\* questions.map(q => ({ id, content, metadata: {...} }))
BuildCache(rows) ==
    [ i \in 1..Len(rows) |->
        [ id |-> rows[i].id,
          metadata |-> [ category   |-> rows[i].category,
                         role       |-> rows[i].role,
                         topic      |-> rows[i].topic,
                         difficulty |-> rows[i].difficulty ] ] ]

\* (mutant) a cache whose age is exactly the timeout still counts as fresh
IsFreshInclusive(cache, last, t) ==
    /\ cache # None
    /\ last # None
    /\ last[1] # 0
    /\ (t - last[1]) <= cacheTimeout

\* this.questionsCache && this.lastCacheTime && (Date.now() - this.lastCacheTime) < this.cacheTimeout
\* (null is falsy, an array is truthy even when empty, the number 0 is falsy)
IsFresh(cache, last, t) ==
    /\ cache # None
    /\ last # None
    /\ last[1] # 0
    /\ (t - last[1]) < cacheTimeout

\* The outcome of one call: the list returned and the store fields after it.
GetAllQuestions(cache, last, t, rows) ==
    IF IsFresh(cache, last, t)
    THEN [ list |-> cache[1], cache |-> cache, last |-> last, rebuilt |-> FALSE ]
    ELSE LET docs == BuildCache(rows)
         IN  [ list |-> docs, cache |-> Some(docs), last |-> Some(t), rebuilt |-> TRUE ]

\* The store fields (and the history of rebuilds) after a call with outcome g.
StoreAfter(g) ==
    /\ questionsCache' = g.cache
    /\ lastCacheTime' = g.last
    /\ builtFrom' = IF g.rebuilt THEN Some(db) ELSE builtFrom
    /\ builtAt' = IF g.rebuilt THEN Some(now) ELSE builtAt
    /\ UNCHANGED <<db, now>>

-----------------------------------------------------------------------------
(* QuestionStore.getFilteredQuestions({ role, difficulty, category, excludeIds = [] }) *)

\* A filter argument counts when it is truthy: neither undefined nor ''.
Truthy(opt) == opt # None /\ opt[1] # ""

\* excludeIds = [] when the caller leaves it out
ExcludeIdsOf(f) == IF f.excludeIds = None THEN <<>> ELSE f.excludeIds[1]

\* Array.prototype.includes
ArrayIncludes(arr, x) == \E k \in 1..Len(arr) : arr[k] = x

\* (mutant) the role filter asks for the exact role only
KeepsRoleExact(q, f) ==
    IF ArrayIncludes(ExcludeIdsOf(f), q.id) THEN FALSE
    ELSE IF Truthy(f.role) /\ q.metadata.role # f.role[1] THEN FALSE
    ELSE IF Truthy(f.difficulty) /\ q.metadata.difficulty # f.difficulty[1] THEN FALSE
    ELSE IF Truthy(f.category) /\ q.metadata.category # f.category[1] THEN FALSE
    ELSE TRUE

\* (mutant) excludeIds is not looked at
KeepsAnswered(q, f) ==
    IF Truthy(f.role) /\ q.metadata.role # f.role[1] /\ q.metadata.role # "any" THEN FALSE
    ELSE IF Truthy(f.difficulty) /\ q.metadata.difficulty # f.difficulty[1] THEN FALSE
    ELSE IF Truthy(f.category) /\ q.metadata.category # f.category[1] THEN FALSE
    ELSE TRUE

\* the callback of allQuestions.filter
Keeps(q, f) ==
    IF ArrayIncludes(ExcludeIdsOf(f), q.id) THEN FALSE
    ELSE IF Truthy(f.role) /\ q.metadata.role # f.role[1] /\ q.metadata.role # "any" THEN FALSE
    ELSE IF Truthy(f.difficulty) /\ q.metadata.difficulty # f.difficulty[1] THEN FALSE
    ELSE IF Truthy(f.category) /\ q.metadata.category # f.category[1] THEN FALSE
    ELSE TRUE

\* allQuestions.filter(q => ...)
FilterQuestions(allQuestions, f) == SelectSeq(allQuestions, LAMBDA q : Keeps(q, f))

-----------------------------------------------------------------------------
(* Environment of the store. *)

\* Time passes (one minute at a time).
Tick ==
    /\ now + MinuteMs <= StartTime + MaxMinutes * MinuteMs
    /\ now' = now + MinuteMs
    /\ readObs' = None
    /\ filtObs' = None
    /\ UNCHANGED <<db, questionsCache, lastCacheTime, builtFrom, builtAt>>
    /\ UNCHANGED <<envVars, appVars, selVars, evVars>>

\* A row is added to table questions.
BankInsert(r) ==
    /\ Len(db) < MaxBank
    /\ \A i \in 1..Len(db) : db[i].id # r.id
    /\ db' = Append(db, r)
    /\ readObs' = None
    /\ filtObs' = None
    /\ UNCHANGED <<questionsCache, lastCacheTime, now, builtFrom, builtAt>>
    /\ UNCHANGED <<envVars, appVars, selVars, evVars>>

\* A row is deleted from table questions.
BankDelete(i) ==
    /\ i \in 1..Len(db)
    /\ db' = SubSeq(db, 1, i - 1) \o SubSeq(db, i + 1, Len(db))
    /\ readObs' = None
    /\ filtObs' = None
    /\ UNCHANGED <<questionsCache, lastCacheTime, now, builtFrom, builtAt>>
    /\ UNCHANGED <<envVars, appVars, selVars, evVars>>

\* QuestionStore.clearCache
ClearCache ==
    /\ questionsCache' = None
    /\ lastCacheTime' = None
    /\ readObs' = None
    /\ filtObs' = None
    /\ UNCHANGED <<db, now, builtFrom, builtAt>>
    /\ UNCHANGED <<envVars, appVars, selVars, evVars>>

\* A request reads the whole list (getAllQuestions, as getQuestionById does).
ReadAll ==
    LET g == GetAllQuestions(questionsCache, lastCacheTime, now, db)
    IN  /\ StoreAfter(g)
        /\ readObs' = Some([ cache |-> questionsCache, last |-> lastCacheTime,
                             builtAt |-> builtAt, now |-> now, db |-> db,
                             list |-> g.list ])
        /\ filtObs' = None
        /\ UNCHANGED <<envVars, appVars, selVars, evVars>>

\* A request calls getFilteredQuestions(f); the call is synchronous, so calls
\* never overlap.
CallGetFilteredQuestions(f) ==
    LET g == GetAllQuestions(questionsCache, lastCacheTime, now, db)
    IN  /\ filtObs = None
        /\ StoreAfter(g)
        /\ filtObs' = Some([ args |-> f, result |-> FilterQuestions(g.list, f) ])
        /\ readObs' = None
        /\ UNCHANGED <<envVars, appVars, selVars, evVars>>

\* The caller has taken the result of its getFilteredQuestions call.
FilterReturn ==
    /\ filtObs # None
    /\ filtObs' = None
    /\ UNCHANGED <<storeVars, readObs, envVars, appVars, selVars, evVars>>

-----------------------------------------------------------------------------
(* The store under bank changes, clock and clearCache. *)
SelIdle ==
    /\ selModel = FALSE
    /\ selPc = "idle"
    /\ selCtx = None
    /\ selAvail = None
    /\ selResult = None
    /\ selModelSaid = None

EvIdle ==
    /\ evModel = FALSE
    /\ evPc = "idle"
    /\ evInput = None
    /\ evRule = None
    /\ evHangs = FALSE
    /\ evModelSaid = None
    /\ evResult = None

\* No batch selection is running, the session tables are empty, no request is in flight.
AppIdle ==
    /\ batch = None
    /\ interviewSessions = <<>>
    /\ sessionAnswers = <<>>
    /\ sessionFeedback = <<>>
    /\ handlers = <<>>
    /\ lastResponse = None

StoreInit ==
    /\ db \in BanksUpTo(MaxBank)
    /\ questionsCache = None
    /\ lastCacheTime = None
    /\ now = StartTime
    /\ builtFrom = None
    /\ builtAt = None
    /\ readObs = None
    /\ filtObs = None
    /\ aiEnabled = FALSE
    /\ fallbackEnabled = TRUE
    /\ SelIdle
    /\ AppIdle
    /\ EvIdle

StoreNext ==
    \/ Tick
    \/ \E r \in Catalogue : BankInsert(r)
    \/ \E i \in 1..MaxBank : BankDelete(i)
    \/ ClearCache
    \/ ReadAll

StoreSpec == StoreInit /\ [][StoreNext]_vars

\* list holds one document per row of rows, in the rows' order, with the row's columns.
SameContent(list, rows) ==
    /\ Len(list) = Len(rows)
    /\ \A i \in 1..Len(rows) :
          /\ list[i].id = rows[i].id
          /\ list[i].metadata.category = rows[i].category
          /\ list[i].metadata.role = rows[i].role
          /\ list[i].metadata.topic = rows[i].topic
          /\ list[i].metadata.difficulty = rows[i].difficulty

\* C8: a read reloads the full list from the bank when the cache is unset or its
\* age is at least cacheTimeout (5 minutes), and returns the cached list otherwise;
\* so a read made 5 minutes or more after the last rebuild, or with the cache
\* cleared, returns the bank's current content.
C8_ReloadWhenUnsetOrExpired ==
    readObs # None =>
        LET o == readObs[1]
            expired == o.cache = None \/ o.now - o.last[1] >= cacheTimeout
        IN  /\ expired => SameContent(o.list, o.db)
            /\ ~expired => o.list = o.cache[1]
            /\ (o.builtAt # None /\ o.now - o.builtAt[1] >= cacheTimeout)
                  => SameContent(o.list, o.db)

\* A read found a cache as old as the timeout whose list the bank no longer holds.
C8_Witness ==
    /\ readObs # None
    /\ readObs[1].cache # None
    /\ readObs[1].now - readObs[1].last[1] >= cacheTimeout
    /\ readObs[1].cache[1] # readObs[1].list

\* C9: at every point where a request can run, the cache is unset or holds the
\* complete list built from one state of the bank, paired with the time of that
\* build; and every read returns the complete old list or the complete new one.
C9_NoPartialList ==
    /\ (questionsCache = None) <=> (lastCacheTime = None)
    /\ questionsCache # None =>
          /\ builtFrom # None
          /\ SameContent(questionsCache[1], builtFrom[1])
          /\ lastCacheTime = builtAt
    /\ readObs # None =>
          \/ readObs[1].cache # None /\ readObs[1].list = readObs[1].cache[1]
          \/ SameContent(readObs[1].list, readObs[1].db)

\* A read triggered a rebuild that replaced a cached list by a new list of two rows or more.
C9_Witness ==
    /\ readObs # None
    /\ readObs[1].cache # None
    /\ readObs[1].list # readObs[1].cache[1]
    /\ Len(readObs[1].list) >= 2
    /\ questionsCache = Some(readObs[1].list)

-----------------------------------------------------------------------------
(* Texts: a text is a sequence of one-character strings. *)

\* String.prototype.includes
Includes(s, k) == \E i \in 0..(Len(s) - Len(k)) : \A j \in 1..Len(k) : s[i + j] = k[j]

IsSpace(c) == c = " "

\* String.prototype.trim
TrimStr(s) ==
    IF \A i \in 1..Len(s) : IsSpace(s[i]) THEN <<>>
    ELSE SubSeq(s, CHOOSE i \in 1..Len(s) : ~IsSpace(s[i]) /\ \A j \in 1..(i - 1) : IsSpace(s[j]),
                   CHOOSE i \in 1..Len(s) : ~IsSpace(s[i]) /\ \A j \in (i + 1)..Len(s) : IsSpace(s[j]))

RECURSIVE Sum(_)
\* arr.reduce((a, b) => a + b, 0)
Sum(arr) == IF arr = <<>> THEN 0 ELSE arr[1] + Sum(Tail(arr))

-----------------------------------------------------------------------------
(* QuestionSelector (questionSelector.js)                                  *)

\* A getAllQuestions call that follows the call with outcome g in the same handler.
ThenGetAll(g, t, rows) ==
    LET h == GetAllQuestions(g.cache, g.last, t, rows)
    IN  [ h EXCEPT !.rebuilt = g.rebuilt \/ h.rebuilt ]

\* initModel: if (!this.model && isAIEnabled()) this.model = createModel(...); return this.model
InitModel(model, enabled) == model \/ enabled

\* (mutant) the first query leaves the difficulty out
FirstFilterAnyDifficulty(ctx) ==
    [ role |-> Some(ctx.role), difficulty |-> None, category |-> None,
      excludeIds |-> Some(ctx.answeredQuestionIds) ]

\* { role, difficulty, excludeIds: answeredQuestionIds }
FirstFilter(ctx) ==
    [ role |-> Some(ctx.role), difficulty |-> ctx.difficulty, category |-> None,
      excludeIds |-> Some(ctx.answeredQuestionIds) ]

\* (mutant) the relaxed query still filters on the difficulty
RelaxedFilterKeepsDifficulty(ctx) ==
    [ role |-> Some(ctx.role), difficulty |-> ctx.difficulty, category |-> None,
      excludeIds |-> Some(ctx.answeredQuestionIds) ]

\* { role, excludeIds: answeredQuestionIds }
RelaxedFilter(ctx) ==
    [ role |-> Some(ctx.role), difficulty |-> None, category |-> None,
      excludeIds |-> Some(ctx.answeredQuestionIds) ]

\* (mutant) no topic counts as covered
GetSessionTopicsCoveredNone(allQuestions, answeredQuestionIds) == {}

\* QuestionStore.getSessionTopicsCovered: the topics of the answered ids the list holds
GetSessionTopicsCovered(allQuestions, answeredQuestionIds) ==
    { allQuestions[j].metadata.topic :
        j \in { j2 \in 1..Len(allQuestions) :
                  ArrayIncludes(answeredQuestionIds, allQuestions[j2].id) } }

\* avgScore >= 70 ? [hard, medium, easy] : avgScore >= 50 ? [medium, easy, hard] : [easy, medium, hard]
\* with avgScore = sum / length, or 50 when recentScores is empty
DifficultyOrder(recentScores) ==
    LET n == Len(recentScores)
        sum == Sum(recentScores)
    IN  IF n > 0 /\ sum >= 70 * n THEN <<"hard", "medium", "easy">>
        ELSE IF n = 0 \/ sum >= 50 * n THEN <<"medium", "easy", "hard">>
        ELSE <<"easy", "medium", "hard">>

\* Array.prototype.indexOf (0-based, -1 when absent)
IndexOf(arr, x) ==
    IF ArrayIncludes(arr, x)
    THEN (CHOOSE i \in 1..Len(arr) : arr[i] = x /\ \A j \in 1..(i - 1) : arr[j] # x) - 1
    ELSE -1

\* (mutant) the candidates are left in pool order
SortByDifficultyNot(candidates, order) == candidates

\* candidates.sort((a, b) => order.indexOf(a...difficulty) - order.indexOf(b...difficulty)):
\* Array.prototype.sort is stable
SortByDifficulty(candidates, order) ==
    LET at(k) == SelectSeq(candidates, LAMBDA q : IndexOf(order, q.metadata.difficulty) = k)
    IN  at(-1) \o at(0) \o at(1) \o at(2)

\* smartFallbackSelect up to the random pick: topCandidates
SmartFallbackTop(ctx, availableQuestions, allQuestions) ==
    LET topicsCovered == GetSessionTopicsCovered(allQuestions, ctx.answeredQuestionIds)
        uncovered == SelectSeq(availableQuestions, LAMBDA q : q.metadata.topic \notin topicsCovered)
        candidates == IF Len(uncovered) = 0 THEN availableQuestions ELSE uncovered
        sorted == SortByDifficulty(candidates, DifficultyOrder(ctx.recentScores))
    IN  SubSeq(sorted, 1, IF Len(sorted) < 3 THEN Len(sorted) ELSE 3)

\* (mutant) the last available question the response names is taken
AiPickLast(response, availableQuestions) ==
    LET text == TrimStr(response)
        hits == { i \in 1..Len(availableQuestions) : Includes(text, availableQuestions[i].id) }
    IN  IF hits = {} THEN None
        ELSE Some(availableQuestions[CHOOSE i \in hits : \A j \in hits : i >= j])

\* aiSelect after the response: the first available question whose id the trimmed
\* response includes (None when there is none)
AiPick(response, availableQuestions) ==
    LET text == TrimStr(response)
        hits == { i \in 1..Len(availableQuestions) : Includes(text, availableQuestions[i].id) }
    IN  IF hits = {} THEN None
        ELSE Some(availableQuestions[CHOOSE i \in hits : \A j \in hits : i <= j])

Selected(q, method) == [ kind |-> "question", question |-> q, selectionMethod |-> method ]
NoQuestion == [ kind |-> "null" ]
Thrown == [ kind |-> "error" ]

\* (mutant) the random pick carries the tag of the heuristic one
RandomSelectAsFallback(questions) ==
    { Selected(questions[i], "fallback") : i \in 1..Len(questions) }

\* randomSelect(questions): what questions[Math.floor(Math.random() * questions.length)]
\* can give
RandomSelect(questions) ==
    { Selected(questions[i], "random") : i \in 1..Len(questions) }

\* The call returns (or throws) r to its caller.
SelFinish(ctx, r) ==
    /\ selPc' = "done"
    /\ selCtx' = Some(ctx)
    /\ selAvail' = None
    /\ selResult' = Some(r)

\* smartFallbackSelect(ctx, availableQuestions), with its read of the store and its
\* Math.random() pick among topCandidates, as the end of the call.
SmartFallbackSelect(ctx, availableQuestions, g) ==
    LET h == ThenGetAll(g, now, db)
        top == SmartFallbackTop(ctx, availableQuestions, h.list)
    IN  /\ StoreAfter(h)
        /\ \E i \in 1..Len(top) : SelFinish(ctx, Selected(top[i], "fallback"))

\* What the store is left as by a handler segment that read nothing.
NoRead == [ list |-> <<>>, cache |-> questionsCache, last |-> lastCacheTime, rebuilt |-> FALSE ]

\* selectNextQuestion(ctx) from its start to its return or to its await.
SelectNextQuestion(ctx) ==
    /\ selPc = "idle"
    /\ selModelSaid' = None
    /\ readObs' = None
    /\ filtObs' = None
    /\ UNCHANGED <<envVars, evVars>>
    /\ LET g1 == GetAllQuestions(questionsCache, lastCacheTime, now, db)
           availableQuestions == FilterQuestions(g1.list, FirstFilter(ctx))
       IN  IF Len(availableQuestions) = 0
           THEN LET g2 == ThenGetAll(g1, now, db)
                    fallbackQuestions == FilterQuestions(g2.list, RelaxedFilter(ctx))
                IN  /\ StoreAfter(g2)
                    /\ selModel' = selModel
                    /\ IF Len(fallbackQuestions) = 0
                       THEN SelFinish(ctx, NoQuestion)
                       ELSE \E r \in RandomSelect(fallbackQuestions) : SelFinish(ctx, r)
           ELSE /\ selModel' = InitModel(selModel, aiEnabled)
                /\ IF InitModel(selModel, aiEnabled)
                   THEN \* aiSelect reads the topics covered, then awaits chain.invoke
                        /\ StoreAfter(ThenGetAll(g1, now, db))
                        /\ selPc' = "awaiting"
                        /\ selCtx' = Some(ctx)
                        /\ selAvail' = Some(availableQuestions)
                        /\ selResult' = None
                   ELSE SmartFallbackSelect(ctx, availableQuestions, g1)

\* selectNextQuestion(ctx) called from outside the batch loop and the routes.
CallSelectNextQuestion(ctx) ==
    /\ batch = None
    /\ handlers = <<>>
    /\ SelectNextQuestion(ctx)
    /\ UNCHANGED appVars

\* chain.invoke resolves with the text response and aiSelect goes on.
AiSelectResolves(response) ==
    /\ selPc = "awaiting"
    /\ selModelSaid' = Some([ kind |-> "resolved", names |-> { id \in Ids : Includes(response, id) } ])
    /\ readObs' = None
    /\ filtObs' = None
    /\ UNCHANGED <<envVars, appVars, selModel, evVars>>
    /\ LET pick == AiPick(response, selAvail[1])
       IN  IF pick = None
           THEN SmartFallbackSelect(selCtx[1], selAvail[1], NoRead)
           ELSE /\ SelFinish(selCtx[1], Selected(pick[1], "ai"))
                /\ UNCHANGED storeVars

\* chain.invoke rejects: the catch of selectNextQuestion runs.
AiSelectRejects ==
    /\ selPc = "awaiting"
    /\ selModelSaid' = Some([ kind |-> "rejected" ])
    /\ readObs' = None
    /\ filtObs' = None
    /\ UNCHANGED <<envVars, appVars, selModel, evVars>>
    /\ IF fallbackEnabled
       THEN SmartFallbackSelect(selCtx[1], selAvail[1], NoRead)
       ELSE /\ SelFinish(selCtx[1], Thrown)
            /\ UNCHANGED storeVars

\* The caller has taken the result; the selector is free for the next call.
SelectReturn ==
    /\ selPc = "done"
    /\ selPc' = "idle"
    /\ selCtx' = None
    /\ selAvail' = None
    /\ selResult' = None
    /\ selModelSaid' = None
    /\ UNCHANGED <<storeVars, obsVars, envVars, appVars, selModel, evVars>>

-----------------------------------------------------------------------------
(* getFilteredQuestions over every bank and every filter. *)

RECURSIVE SeqOf(_)
\* The members of a finite set as an array.
SeqOf(S) == IF S = {} THEN <<>> ELSE LET x == CHOOSE y \in S : TRUE IN <<x>> \o SeqOf(S \ {x})

IdLists == { SeqOf(S) : S \in { T \in SUBSET Ids : Cardinality(T) <= MaxExclude } }

Opt(S) == {None} \cup { Some(x) : x \in S }

FilterArgs ==
    [ role : Opt({"frontend", "backend"}),
      difficulty : Opt({"easy", "medium", "hard"}),
      category : Opt({"technical", "behavioral"}),
      excludeIds : Opt(IdLists) ]

FilterInit ==
    /\ db \in BanksUpTo(MaxSelBank)
    /\ questionsCache = None
    /\ lastCacheTime = None
    /\ now = StartTime
    /\ builtFrom = None
    /\ builtAt = None
    /\ readObs = None
    /\ filtObs = None
    /\ aiEnabled = FALSE
    /\ fallbackEnabled = TRUE
    /\ SelIdle
    /\ AppIdle
    /\ EvIdle

FilterNext ==
    \/ \E f \in FilterArgs : CallGetFilteredQuestions(f)
    \/ FilterReturn
    \/ ClearCache

FilterSpec == FilterInit /\ [][FilterNext]_vars

\* What the filter is to keep: the id is not excluded, and each filter given is met.
Wanted(q, f) ==
    /\ ~(f.excludeIds # None /\ \E k \in 1..Len(f.excludeIds[1]) : f.excludeIds[1][k] = q.id)
    /\ (f.role = None \/ q.metadata.role = f.role[1] \/ q.metadata.role = "any")
    /\ (f.difficulty = None \/ q.metadata.difficulty = f.difficulty[1])
    /\ (f.category = None \/ q.metadata.category = f.category[1])

\* C10: getFilteredQuestions returns exactly the cached questions that are not
\* excluded and meet every filter given (role: the role itself or 'any'), in cache
\* order: its i-th element is the i-th such question of the cache.
C10_FilterExact ==
    filtObs # None =>
        LET all == questionsCache[1]
            res == filtObs[1].result
            keep == { j \in 1..Len(all) : Wanted(all[j], filtObs[1].args) }
        IN  /\ Len(res) = Cardinality(keep)
            /\ \A i \in 1..Len(res) :
                  \E j \in keep : /\ all[j] = res[i]
                                  /\ Cardinality({ j2 \in keep : j2 <= j }) = i

\* A call with excludeIds as its only filter dropped a cached question and kept two,
\* one of them of role 'any'.
C10_Witness ==
    /\ filtObs # None
    /\ filtObs[1].args.role = None
    /\ filtObs[1].args.difficulty = None
    /\ filtObs[1].args.category = None
    /\ filtObs[1].args.excludeIds # None
    /\ Len(filtObs[1].result) = 2
    /\ Len(questionsCache[1]) = 3
    /\ \E i \in 1..2 : filtObs[1].result[i].metadata.role = "any"

\* A call with a role kept a question of role 'any'.
C10_WitnessAny ==
    /\ filtObs # None
    /\ filtObs[1].args.role = Some("frontend")
    /\ \E i \in 1..Len(filtObs[1].result) : filtObs[1].result[i].metadata.role = "any"

-----------------------------------------------------------------------------
(* The selector over a bank that does not change (nothing in the server    *)
(* writes table questions after it is seeded).                             *)

ScoreLists == { <<>>, <<90, 85>>, <<40>> }

Contexts ==
    [ role : {"frontend", "backend"},
      difficulty : Opt({"easy", "hard"}),
      answeredQuestionIds : IdLists,
      recentScores : ScoreLists ]

SelRespChars == {"a", "b", "c"}
SelResponses == UNION { [1..n -> SelRespChars] : n \in 0..MaxSelRespLen }

Init ==
    /\ db \in BanksUpTo(MaxSelBank)
    /\ questionsCache = None
    /\ lastCacheTime = None
    /\ now = StartTime
    /\ builtFrom = None
    /\ builtAt = None
    /\ readObs = None
    /\ filtObs = None
    /\ aiEnabled \in BOOLEAN
    /\ fallbackEnabled \in BOOLEAN
    /\ SelIdle
    /\ AppIdle
    /\ EvIdle

Next ==
    \/ \E ctx \in Contexts : CallSelectNextQuestion(ctx)
    \/ \E response \in SelResponses : AiSelectResolves(response)
    \/ AiSelectRejects
    \/ SelectReturn

Spec == Init /\ [][Next]_vars

\* The bank's rows that match the role of ctx (the role itself or 'any') and whose
\* id ctx has not answered, whatever their difficulty.
Remaining(ctx) ==
    { j \in 1..Len(db) :
        /\ db[j].role = ctx.role \/ db[j].role = "any"
        /\ \A k \in 1..Len(ctx.answeredQuestionIds) : ctx.answeredQuestionIds[k] # db[j].id }

\* C1: whatever path chose it (model pick, heuristic fallback, random pick on the
\* relaxed pool), the question a call returns is none of answeredQuestionIds.
C1_NeverAnswered ==
    (selPc = "done" /\ selResult[1].kind = "question") =>
        \A k \in 1..Len(selCtx[1].answeredQuestionIds) :
            selCtx[1].answeredQuestionIds[k] # selResult[1].question.id

\* The model picked a question for a session that has answered another question the
\* bank holds for its role.
C1_Witness ==
    /\ selPc = "done"
    /\ selResult[1].kind = "question"
    /\ selResult[1].selectionMethod = "ai"
    /\ \E j \in 1..Len(db) :
         /\ db[j].role = selCtx[1].role
         /\ ArrayIncludes(selCtx[1].answeredQuestionIds, db[j].id)

\* C7: a call returns null exactly when the store holds no question for the role
\* (or 'any'), of any difficulty, outside answeredQuestionIds; and when it holds one
\* and fallback is enabled, the call returns a question.
C7_NullIffNoneRemain ==
    selPc = "done" =>
        /\ (selResult[1].kind = "null") <=> (Remaining(selCtx[1]) = {})
        /\ (Remaining(selCtx[1]) # {} /\ fallbackEnabled) => selResult[1].kind = "question"

\* A call returned null although the bank holds a question for another role, and
\* questions of the role that are answered.
C7_Witness ==
    /\ selPc = "done"
    /\ selResult[1].kind = "null"
    /\ selCtx[1].difficulty # None
    /\ \E j \in 1..Len(db) : db[j].role = selCtx[1].role
    /\ \E j \in 1..Len(db) : db[j].role # selCtx[1].role /\ db[j].role # "any"

\* A call with a difficulty no remaining question has returned a question of another difficulty.
C7_WitnessRelaxed ==
    /\ selPc = "done"
    /\ selResult[1].kind = "question"
    /\ selCtx[1].difficulty # None
    /\ selResult[1].question.metadata.difficulty # selCtx[1].difficulty[1]

-----------------------------------------------------------------------------
(* FeedbackService.evaluateAnswer (feedback.js): the rule-based evaluator  *)

UpperChars ==
    <<"A", "B", "C", "D", "E", "F", "G", "H", "I", "J", "K", "L", "M", "N", "O", "P",
      "Q", "R", "S", "T", "U", "V", "W", "X", "Y", "Z">>
LowerChars ==
    <<"a", "b", "c", "d", "e", "f", "g", "h", "i", "j", "k", "l", "m", "n", "o", "p",
      "q", "r", "s", "t", "u", "v", "w", "x", "y", "z">>

UpperSet == { UpperChars[i] : i \in 1..Len(UpperChars) }

\* String.prototype.toLowerCase, letter by letter
LowerChar(c) ==
    IF c \in UpperSet
    THEN LowerChars[CHOOSE i \in 1..Len(UpperChars) : UpperChars[i] = c]
    ELSE c
ToLowerCase(s) == [ i \in 1..Len(s) |-> LowerChar(s[i]) ]

RECURSIVE SplitComma(_)
\* String.prototype.split(','): ''.split(',') is ['']
SplitComma(s) ==
    LET commas == { i \in 1..Len(s) : s[i] = "," }
    IN  IF commas = {} THEN << s >>
        ELSE LET c == CHOOSE i \in commas : \A j \in commas : i <= j
             IN  << SubSeq(s, 1, c - 1) >> \o SplitComma(SubSeq(s, c + 1, Len(s)))

\* (question.expected_keywords || '').toLowerCase().split(',').map(k => k.trim())
ExpectedKeywords(keywords) ==
    LET raw == IF keywords = None THEN <<>> ELSE keywords[1]
        parts == SplitComma(ToLowerCase(raw))
    IN  [ i \in 1..Len(parts) |-> TrimStr(parts[i]) ]

\* (answer || '').toLowerCase().trim()
AnswerText(answer) == TrimStr(ToLowerCase(IF answer = None THEN <<>> ELSE answer[1]))

\* (mutant) a keyword is matched when the answer is the keyword
MatchedKeywordsExact(answerText, expectedKeywords) ==
    SelectSeq(expectedKeywords, LAMBDA k : answerText = k)

\* expectedKeywords.filter(keyword => answerText.includes(keyword))
MatchedKeywords(answerText, expectedKeywords) ==
    SelectSeq(expectedKeywords, LAMBDA k : Includes(answerText, k))

\* (mutant) a keyword is missed unless the answer starts with it
MissedKeywordsPrefix(answerText, expectedKeywords) ==
    SelectSeq(expectedKeywords, LAMBDA k : ~(Len(k) <= Len(answerText) /\ SubSeq(answerText, 1, Len(k)) = k))

\* expectedKeywords.filter(k => !answerText.includes(k))
MissedKeywords(answerText, expectedKeywords) ==
    SelectSeq(expectedKeywords, LAMBDA k : ~Includes(answerText, k))

\* answerText.split(/\s+/).filter(w => w.length > 0).length
WordCount(answerText) ==
    Cardinality({ i \in 1..Len(answerText) :
                    ~IsSpace(answerText[i]) /\ (i = 1 \/ IsSpace(answerText[i - 1])) })

IsTerminal(c) == c \in {".", "!", "?"}

\* (answerText.match(/[.!?]+/g) || []).length
SentenceCount(answerText) ==
    Cardinality({ i \in 1..Len(answerText) :
                    IsTerminal(answerText[i]) /\ (i = 1 \/ ~IsTerminal(answerText[i - 1])) })

LengthScore(wordCount) ==
    IF wordCount >= 30 /\ wordCount <= 500 THEN 100
    ELSE IF wordCount >= 15 /\ wordCount < 30 THEN 60
    ELSE IF wordCount > 500 THEN 70
    ELSE IF wordCount >= 5 THEN 40
    ELSE 0

StructureScore(sentenceCount) == IF sentenceCount >= 2 THEN 100 ELSE 50

\* Math.round(num / den) for num >= 0, den > 0: the nearest integer, halves up.
\* The program rounds IEEE doubles; for up to 39 keywords the doubles round as the
\* exact quotients do.
RoundHalfUp(num, den) == (2 * num + den) \div (2 * den)

\* Math.round(keywordScore), keywordScore = length > 0 ? matched / length * 100 : 0
KeywordScoreRounded(m, n) == IF n > 0 THEN RoundHalfUp(100 * m, n) ELSE 0

\* (mutant) the weights of length and structure exchanged
OverallScoreSwapped(m, n, lengthScore, structureScore) ==
    IF n > 0
    THEN RoundHalfUp(500 * m + n * (2 * lengthScore + 3 * structureScore), 10 * n)
    ELSE RoundHalfUp(2 * lengthScore + 3 * structureScore, 10)

\* Math.round(keywordScore * 0.5 + lengthScore * 0.3 + structureScore * 0.2),
\* on the keywordScore that is not rounded
OverallScore(m, n, lengthScore, structureScore) ==
    IF n > 0
    THEN RoundHalfUp(500 * m + n * (3 * lengthScore + 2 * structureScore), 10 * n)
    ELSE RoundHalfUp(3 * lengthScore + 2 * structureScore, 10)

\* generateFeedbackText: the score band, then the strengths and the weaknesses
GenerateFeedbackText(score, strengths, weaknesses) ==
    [ band |-> IF score >= 80 THEN "Excellent answer!"
               ELSE IF score >= 60 THEN "Good answer with room for improvement."
               ELSE IF score >= 40 THEN "Decent attempt, but needs more depth."
               ELSE "This answer needs significant improvement.",
      strengths |-> strengths,
      weaknesses |-> weaknesses ]

\* FeedbackService.evaluateAnswer(answer, { expected_keywords })
FeedbackEvaluate(answer, keywords) ==
    LET answerText == AnswerText(answer)
        expectedKeywords == ExpectedKeywords(keywords)
        matchedKeywords == MatchedKeywords(answerText, expectedKeywords)
        m == Len(matchedKeywords)
        n == Len(expectedKeywords)
        wordCount == WordCount(answerText)
        lengthScore == LengthScore(wordCount)
        hasStructure == SentenceCount(answerText) >= 2
        structureScore == StructureScore(SentenceCount(answerText))
        overallScore == OverallScore(m, n, lengthScore, structureScore)
        \* keywordScore >= 70, keywordScore >= 40 on the quotient 100 m / n
        kw70 == n > 0 /\ 100 * m >= 70 * n
        kw40 == n > 0 /\ 100 * m >= 40 * n
        strengths ==
            (IF kw70 THEN <<"Good coverage of key concepts">> ELSE <<>>)
            \o (IF lengthScore >= 80 THEN <<"Answer has good depth and detail">> ELSE <<>>)
            \o (IF hasStructure THEN <<"Well-structured response">> ELSE <<>>)
        weaknesses ==
            (IF kw70 THEN <<>>
             ELSE IF kw40 THEN <<"Some important concepts were missing">>
             ELSE <<"Many key concepts were not addressed">>)
            \o (IF lengthScore >= 80 THEN <<>>
                ELSE IF wordCount < 30 THEN <<"Answer could be more detailed">>
                ELSE IF wordCount > 500 THEN <<"Answer could be more concise">>
                ELSE <<>>)
            \o (IF hasStructure THEN <<>>
                ELSE <<"Consider structuring your answer with multiple points">>)
        missedKeywords == MissedKeywords(answerText, expectedKeywords)
        suggestions ==
            (IF Len(missedKeywords) > 0
             THEN << <<"Consider discussing:",
                       SubSeq(missedKeywords, 1, IF Len(missedKeywords) < 3 THEN Len(missedKeywords) ELSE 3)>> >>
             ELSE <<>>)
            \o (IF wordCount < 30 THEN <<"Provide more examples and explanations">> ELSE <<>>)
            \o (IF ~hasStructure THEN <<"Break your answer into clear points or steps">> ELSE <<>>)
    IN  [ score |-> overallScore,
          keywordScore |-> KeywordScoreRounded(m, n),
          matchedKeywords |-> matchedKeywords,
          missedKeywords |-> missedKeywords,
          wordCount |-> wordCount,
          strengths |-> strengths,
          weaknesses |-> weaknesses,
          suggestions |-> suggestions,
          feedback |-> GenerateFeedbackText(overallScore, strengths, weaknesses) ]

-----------------------------------------------------------------------------
(* Bounded answers, keyword strings and model responses                    *)

MaxAnswerLen == 2
MaxKeywordLen == 3
MaxEvalRespLen == 3

Strings(chars, n) == UNION { [ 1..k -> chars ] : k \in 0..n }

\* n words separated by single spaces, the first k of them "a." and the others "a"
LongAnswer(n, k) ==
    [ p \in 1..(3 * k + 2 * (n - k) - 1) |->
        IF p <= 3 * k
        THEN (IF (p - 1) % 3 = 0 THEN "a" ELSE IF (p - 1) % 3 = 1 THEN "." ELSE " ")
        ELSE (IF (p - 3 * k - 1) % 2 = 0 THEN "a" ELSE " ") ]

\* word counts on both sides of every threshold of lengthScore
LongWordCounts == {4, 5, 14, 15, 29, 30, 500, 501}

LongAnswers == { LongAnswer(n, k) : n \in LongWordCounts, k \in {0, 2} }

AnswerChars == {"a", "B", " ", "."}
KeywordChars == {"a", "B", ",", " "}
EvalRespChars == {"0", "1", "x"}

\* "It's a function scoped variable that gets hoisted"
HoistedAnswer ==
    <<"I", "t", "'", "s", " ", "a", " ", "f", "u", "n", "c", "t", "i", "o", "n", " ",
      "s", "c", "o", "p", "e", "d", " ", "v", "a", "r", "i", "a", "b", "l", "e", " ",
      "t", "h", "a", "t", " ", "g", "e", "t", "s", " ", "h", "o", "i", "s", "t", "e",
      "d">>

\* "Scope and hoisting. Both!"
ScopeAnswer ==
    <<"S", "c", "o", "p", "e", " ", "a", "n", "d", " ", "h", "o", "i", "s", "t", "i",
      "n", "g", ".", " ", "B", "o", "t", "h", "!">>

\* "scope,hoisting,block"
ScopeKeywords ==
    <<"s", "c", "o", "p", "e", ",", "h", "o", "i", "s", "t", "i", "n", "g", ",", "b",
      "l", "o", "c", "k">>

RuleAnswers ==
    Opt(Strings(AnswerChars, MaxAnswerLen) \cup LongAnswers \cup {HoistedAnswer, ScopeAnswer})
RuleKeywords == Opt(Strings(KeywordChars, MaxKeywordLen) \cup {ScopeKeywords})

\* the answers and keyword strings the model evaluator is called with
EvalAnswers ==
    {None, Some(<<"B">>)}
    \cup { Some(LongAnswer(n, k)) : n \in {5, 15, 30}, k \in {0, 2} }
EvalKeywords ==
    {None, Some(<<>>), Some(<<"a">>), Some(<<"a", ",", "B">>), Some(<<"B", ",", " ", "a", ",", "B">>)}
EvalResponses == Strings(EvalRespChars, MaxEvalRespLen)

-----------------------------------------------------------------------------
(* AnswerEvaluator (answerEvaluator.js)                                    *)

\* question.expected_keywords || '' : the column of the row the route read
QuestionKeywords(keywords) ==
    IF keywords = None \/ keywords[1] = <<>> THEN Some(<<>>) ELSE keywords

DigitChars == <<"0", "1", "2", "3", "4", "5", "6", "7", "8", "9">>

IsDigit(c) == \E i \in 1..Len(DigitChars) : DigitChars[i] = c

DigitVal(c) == (CHOOSE i \in 1..Len(DigitChars) : DigitChars[i] = c) - 1

\* response.match(/\d+/): the first maximal run of digits, None when there is none
NumberMatch(response) ==
    LET digits == { i \in 1..Len(response) : IsDigit(response[i]) }
    IN  IF digits = {} THEN None
        ELSE LET from == CHOOSE i \in digits : \A j \in digits : i <= j
                 ends == { j \in from..Len(response) : \A k \in from..j : IsDigit(response[k]) }
                 to == CHOOSE j \in ends : \A k \in ends : j >= k
             IN  Some(SubSeq(response, from, to))

RECURSIVE ParseInt(_)
\* parseInt on a run of decimal digits
ParseInt(ds) ==
    IF ds = <<>> THEN 0
    ELSE 10 * ParseInt(SubSeq(ds, 1, Len(ds) - 1)) + DigitVal(ds[Len(ds)])

\* (mutant) the parsed number as it is
ClampNot(v) == v

\* Math.min(100, Math.max(0, v))
Clamp(v) == IF v > 100 THEN 100 ELSE IF v < 0 THEN 0 ELSE v

\* aiScore: None when the response holds no number
AiScore(response) ==
    LET numberMatch == NumberMatch(response)
    IN  IF numberMatch = None THEN None ELSE Some(Clamp(ParseInt(numberMatch[1])))

\* (mutant) the mean of the two scores, its fraction dropped
BlendedScoreFloor(aiScore, ruleScore) == (aiScore + ruleScore) \div 2

\* Math.round(aiEval.score * 0.5 + ruleEval.score * 0.5)
BlendedScore(aiScore, ruleScore) == RoundHalfUp(aiScore + ruleScore, 2)

\* blendEvaluations(aiEval, ruleEval)
BlendEvaluations(aiEval, ruleEval) ==
    [ score |-> BlendedScore(aiEval.score, ruleEval.score),
      feedback |-> ruleEval.feedback,
      strengths |-> ruleEval.strengths,
      weaknesses |-> ruleEval.weaknesses,
      suggestions |-> ruleEval.suggestions,
      matchedKeywords |-> ruleEval.matchedKeywords,
      missedKeywords |-> ruleEval.missedKeywords,
      keywordScore |-> ruleEval.keywordScore,
      wordCount |-> ruleEval.wordCount,
      evaluationMethod |-> "ai-blended" ]

\* { ...ruleEvaluation, evaluationMethod: method }
Tagged(ruleEvaluation, method) ==
    [ score |-> ruleEvaluation.score,
      keywordScore |-> ruleEvaluation.keywordScore,
      matchedKeywords |-> ruleEvaluation.matchedKeywords,
      missedKeywords |-> ruleEvaluation.missedKeywords,
      wordCount |-> ruleEvaluation.wordCount,
      strengths |-> ruleEvaluation.strengths,
      weaknesses |-> ruleEvaluation.weaknesses,
      suggestions |-> ruleEvaluation.suggestions,
      feedback |-> ruleEvaluation.feedback,
      evaluationMethod |-> method ]

Returned(r) == [ kind |-> "result", value |-> r ]

\* (mutant) the catch block returns the rule result whatever the flag
OnModelErrorAlways(ruleEvaluation, fallback) == Returned(Tagged(ruleEvaluation, "fallback"))

\* catch (error) { if (shouldFallback()) return {...}; throw error }
OnModelError(ruleEvaluation, fallback) ==
    IF fallback THEN Returned(Tagged(ruleEvaluation, "fallback")) ELSE Thrown

\* The call returns (or throws) r to its caller.
EvFinish(said, r) ==
    /\ evPc' = "done"
    /\ evHangs' = FALSE
    /\ evModelSaid' = said
    /\ evResult' = Some(r)

\* evaluateAnswer up to its await: the rule evaluation, initModel(), and either the
\* 'rules' result or the model call, which the environment may leave unsettled
EvaluateAnswer ==
    /\ evPc = "idle"
    /\ \E answer \in EvalAnswers, keywords \in EvalKeywords :
        LET ruleEvaluation == FeedbackEvaluate(answer, QuestionKeywords(keywords))
            model == InitModel(evModel, aiEnabled)
        IN  /\ evModel' = model
            /\ evInput' = Some([ answer |-> answer, keywords |-> keywords ])
            /\ evRule' = Some(ruleEvaluation)
            /\ IF model
               THEN /\ evPc' = "awaiting"
                    /\ evHangs' \in BOOLEAN
                    /\ evModelSaid' = None
                    /\ evResult' = None
               ELSE EvFinish(None, Returned(Tagged(ruleEvaluation, "rules")))
    /\ UNCHANGED <<storeVars, obsVars, envVars, appVars, selVars>>

\* chain.invoke resolves with the response: the number is parsed and blended, or the
\* response holds no number and aiEvaluate throws into the catch block
EvalResolves ==
    /\ evPc = "awaiting"
    /\ ~evHangs
    /\ \E response \in EvalResponses :
        LET aiScore == AiScore(response)
            said == Some([ kind |-> "resolved", response |-> response ])
        IN  IF aiScore = None
            THEN EvFinish(said, OnModelError(evRule[1], fallbackEnabled))
            ELSE EvFinish(said, Returned(BlendEvaluations([ score |-> aiScore[1] ], evRule[1])))
    /\ UNCHANGED <<storeVars, obsVars, envVars, appVars, selVars, evModel, evInput, evRule>>

\* chain.invoke rejects (connection refused, a timeout raised by the client)
EvalRejects ==
    /\ evPc = "awaiting"
    /\ ~evHangs
    /\ EvFinish(Some([ kind |-> "rejected" ]), OnModelError(evRule[1], fallbackEnabled))
    /\ UNCHANGED <<storeVars, obsVars, envVars, appVars, selVars, evModel, evInput, evRule>>

\* The caller has the outcome; the evaluator keeps its model for the next call.
EvalReturn ==
    /\ evPc \in {"done", "heuristic"}
    /\ evPc' = "idle"
    /\ evInput' = None
    /\ evRule' = None
    /\ evHangs' = FALSE
    /\ evModelSaid' = None
    /\ evResult' = None
    /\ UNCHANGED <<storeVars, obsVars, envVars, appVars, selVars, evModel>>

\* FeedbackService.evaluateAnswer called on its own (the route without a model)
FeedbackEvaluateAnswer ==
    /\ evPc = "idle"
    /\ \E answer \in RuleAnswers, keywords \in RuleKeywords :
        /\ evPc' = "heuristic"
        /\ evInput' = Some([ answer |-> answer, keywords |-> keywords ])
        /\ evResult' = Some(Returned(FeedbackEvaluate(answer, keywords)))
    /\ UNCHANGED <<storeVars, obsVars, envVars, appVars, selVars, evModel, evRule, evHangs, evModelSaid>>

-----------------------------------------------------------------------------
(* The evaluators over the bounded inputs                                  *)

EvalInit ==
    /\ db = <<>>
    /\ questionsCache = None
    /\ lastCacheTime = None
    /\ now = StartTime
    /\ builtFrom = None
    /\ builtAt = None
    /\ readObs = None
    /\ filtObs = None
    /\ aiEnabled \in BOOLEAN
    /\ fallbackEnabled \in BOOLEAN
    /\ SelIdle
    /\ AppIdle
    /\ EvIdle

EvalSettles == EvalResolves \/ EvalRejects

EvalNext ==
    \/ FeedbackEvaluateAnswer
    \/ EvaluateAnswer
    \/ EvalResolves
    \/ EvalRejects
    \/ EvalReturn

EvalSpec == EvalInit /\ [][EvalNext]_vars

\* A model call that settles does so eventually, and the caller takes the outcome;
\* nothing makes a call settle that the model leaves unanswered.
FairEvalSpec == EvalSpec /\ WF_vars(EvalSettles) /\ WF_vars(EvalReturn)

\* The outcome of the call that has just returned
EvOutcome == evResult[1]

\* The model call failed: it was rejected, or its response holds no digit.
ModelFailed ==
    /\ evModelSaid # None
    /\ \/ evModelSaid[1].kind = "rejected"
       \/ /\ evModelSaid[1].kind = "resolved"
          /\ \A i \in 1..Len(evModelSaid[1].response) :
                evModelSaid[1].response[i] \notin {"0", "1", "2", "3", "4", "5", "6", "7", "8", "9"}

\* The heuristic result of the call's own answer and keywords
HeuristicOfInput == FeedbackEvaluate(evInput[1].answer, evInput[1].keywords)

\* C2: with fallback enabled, a call of evaluateAnswer whose model call never
\* settles still returns in the end, and what it returns is tagged 'fallback'.
C2_HangStillFallsBack ==
    (evPc = "awaiting" /\ evHangs /\ fallbackEnabled)
        ~> (evPc = "done" /\ EvOutcome.kind = "result"
                /\ EvOutcome.value.evaluationMethod = "fallback")

\* C3: when the model call of evaluateAnswer fails (it rejects, or its response
\* holds no integer), then with fallback permitted the call returns the heuristic
\* result, field for field, tagged 'fallback', and with fallback disabled it throws.
C3_ModelErrorCaught ==
    (evPc = "done" /\ ModelFailed) =>
        IF fallbackEnabled
        THEN /\ EvOutcome.kind = "result"
             /\ EvOutcome.value.evaluationMethod = "fallback"
             /\ DOMAIN EvOutcome.value = DOMAIN HeuristicOfInput \cup {"evaluationMethod"}
             /\ \A f \in DOMAIN HeuristicOfInput : EvOutcome.value[f] = HeuristicOfInput[f]
        ELSE EvOutcome.kind = "error"

\* A response without a number, with fallback permitted, came back as the heuristic
\* result of a matched keyword.
C3_Witness ==
    /\ evPc = "done"
    /\ ModelFailed
    /\ evModelSaid[1].kind = "resolved"
    /\ fallbackEnabled
    /\ EvOutcome.kind = "result"
    /\ EvOutcome.value.evaluationMethod = "fallback"
    /\ EvOutcome.value.matchedKeywords # <<>>

\* A rejected model call, with fallback disabled, threw to the caller.
C3_WitnessThrown ==
    /\ evPc = "done"
    /\ ModelFailed
    /\ evModelSaid[1].kind = "rejected"
    /\ ~fallbackEnabled
    /\ EvOutcome.kind = "error"

\* C4: every result of either evaluator ('rules', 'ai-blended', 'fallback', or the
\* heuristic evaluator called directly) has an integer score from 0 to 100.
C4_ScoreInRange ==
    (evResult # None /\ EvOutcome.kind = "result") => EvOutcome.value.score \in 0..100

\* The model answered a number above 100 for an answer the heuristic scores 100:
\* the blended score is 100.
C4_Witness ==
    /\ evPc = "done"
    /\ EvOutcome.kind = "result"
    /\ EvOutcome.value.evaluationMethod = "ai-blended"
    /\ evModelSaid[1].response = <<"1", "0", "1">>
    /\ evRule[1].score = 100
    /\ EvOutcome.value.score = 100

-----------------------------------------------------------------------------
(* blendEvaluations over every pair of scores                              *)

\* the scores an evaluation holds
Scores == 0..100

\* a rule evaluation whose score is h
RuleEvaluationScoring(h) == [ FeedbackEvaluate(None, None) EXCEPT !.score = h ]

BlendInit ==
    /\ db = <<>>
    /\ questionsCache = None
    /\ lastCacheTime = None
    /\ now = StartTime
    /\ builtFrom = None
    /\ builtAt = None
    /\ readObs = None
    /\ filtObs = None
    /\ aiEnabled = TRUE
    /\ fallbackEnabled = TRUE
    /\ SelIdle
    /\ AppIdle
    /\ evModel = TRUE
    /\ evPc = "blending"
    /\ evInput = None
    /\ evRule \in { Some(RuleEvaluationScoring(h)) : h \in Scores }
    /\ evHangs = FALSE
    /\ evModelSaid \in { Some([ kind |-> "scored", score |-> m ]) : m \in Scores }
    /\ evResult = None

\* blendEvaluations(aiEval, ruleEval) on the two evaluations at hand
CallBlendEvaluations ==
    /\ evPc = "blending"
    /\ evPc' = "blended"
    /\ evResult' = Some(Returned(BlendEvaluations([ score |-> evModelSaid[1].score ], evRule[1])))
    /\ UNCHANGED <<storeVars, obsVars, envVars, appVars, selVars, evModel, evInput, evRule, evHangs, evModelSaid>>

BlendNext == CallBlendEvaluations

BlendSpec == BlendInit /\ [][BlendNext]_vars

\* C6: the blended score is the integer nearest to (H + M) / 2, the upper one when
\* H + M is odd: twice the score is H + M or H + M + 1.
C6_BlendRoundsHalfUp ==
    evPc = "blended" =>
        LET h == evRule[1].score
            m == evModelSaid[1].score
            b == EvOutcome.value.score
        IN  /\ b \in Scores
            /\ 2 * b - 1 <= h + m
            /\ h + m <= 2 * b

\* H = 55 and M = 70 blend to 63: the half of 62.5 went up.
C6_Witness ==
    /\ evPc = "blended"
    /\ evRule[1].score = 55
    /\ evModelSaid[1].score = 70
    /\ EvOutcome.value.score = 63

-----------------------------------------------------------------------------
(* The heuristic evaluator called on its own                               *)

\* The answer and the keyword string of the call, '' when missing
InputAnswer == IF evInput[1].answer = None THEN <<>> ELSE evInput[1].answer[1]
InputKeywords == IF evInput[1].keywords = None THEN <<>> ELSE evInput[1].keywords[1]

\* The number of expected keywords that are substrings of the answer, case ignored
MatchCount ==
    LET expected == ExpectedKeywords(evInput[1].keywords)
    IN  Cardinality({ i \in 1..Len(expected) : Includes(ToLowerCase(InputAnswer), expected[i]) })

\* C11: keywordScore is 100 * matched / expected rounded to the nearest integer, a
\* keyword being matched iff it is a substring of the answer with case ignored, and
\* keywordScore is 0 when the keyword string is empty or missing.
C11_KeywordScore ==
    evPc = "heuristic" =>
        LET n == Len(ExpectedKeywords(evInput[1].keywords))
            ks == EvOutcome.value.keywordScore
        IN  IF InputKeywords = <<>>
            THEN ks = 0
            ELSE /\ 2 * n * ks <= 200 * MatchCount + n
                 /\ 200 * MatchCount + n < 2 * n * ks + 2 * n

\* C12: the score is round(0.5 keywordScore + 0.3 lengthScore + 0.2 structureScore)
\* on the keywordScore the result reports, lengthScore from the reported wordCount
\* (100 for 30..500, 70 above, 60 for 15..29, 40 for 5..14, 0 below) and
\* structureScore 100 for two or more groups of terminal punctuation, else 50.
C12_ScoreFromReportedParts ==
    evPc = "heuristic" =>
        LET ks == EvOutcome.value.keywordScore
            wc == EvOutcome.value.wordCount
            ls == IF wc >= 30 /\ wc <= 500 THEN 100
                  ELSE IF wc > 500 THEN 70
                  ELSE IF wc >= 15 THEN 60
                  ELSE IF wc >= 5 THEN 40
                  ELSE 0
            ss == IF SentenceCount(InputAnswer) >= 2 THEN 100 ELSE 50
            tenfold == 5 * ks + 3 * ls + 2 * ss
            score == EvOutcome.value.score
        IN  /\ 10 * score <= tenfold + 5
            /\ tenfold + 5 < 10 * score + 10

\* C14: the heuristic evaluator always returns a result, and for an empty or missing
\* answer the result has no matched keyword, wordCount 0 and the lowest score there
\* is: that of no keyword matched, length score 0 and no structure.
C14_EmptyAnswerFloor ==
    evPc = "heuristic" =>
        /\ EvOutcome.kind = "result"
        /\ InputAnswer = <<>> =>
            /\ EvOutcome.value.matchedKeywords = <<>>
            /\ EvOutcome.value.wordCount = 0
            /\ EvOutcome.value.score = OverallScore(0, 1, LengthScore(0), StructureScore(0))

\* The keywordScore of the call's keywords against another answer text
KeywordScoreOf(text) ==
    LET expected == ExpectedKeywords(evInput[1].keywords)
    IN  KeywordScoreRounded(Len(MatchedKeywords(AnswerText(Some(text)), expected)), Len(expected))

\* C15: appending an expected keyword to the answer text, directly or after a blank,
\* never lowers keywordScore.
C15_KeywordMonotone ==
    evPc = "heuristic" =>
        LET expected == ExpectedKeywords(evInput[1].keywords)
        IN  \A i \in 1..Len(expected) :
                /\ KeywordScoreOf(InputAnswer \o expected[i]) >= EvOutcome.value.keywordScore
                /\ KeywordScoreOf(InputAnswer \o <<" ">> \o expected[i]) >= EvOutcome.value.keywordScore

\* Appending the one missed keyword of two raised keywordScore from 50 to 100.
C15_Witness ==
    /\ evPc = "heuristic"
    /\ InputAnswer = <<"a">>
    /\ InputKeywords = <<"a", ",", "B">>
    /\ EvOutcome.value.keywordScore = 50
    /\ KeywordScoreOf(InputAnswer \o <<"b">>) = 100

\* The call of the worked example
IsWorkedExample ==
    /\ evPc = "heuristic"
    /\ evInput[1].answer = Some(HoistedAnswer)
    /\ evInput[1].keywords = Some(ScopeKeywords)

\* C13 as claimed: the worked example matches scope and hoisting, misses block,
\* and has keywordScore 67, wordCount 9, lengthScore 40, structureScore 50, score 56.
C13_WorkedExample ==
    IsWorkedExample =>
        /\ EvOutcome.value.matchedKeywords = << <<"s", "c", "o", "p", "e">>, <<"h", "o", "i", "s", "t", "i", "n", "g">> >>
        /\ EvOutcome.value.missedKeywords = << <<"b", "l", "o", "c", "k">> >>
        /\ EvOutcome.value.keywordScore = 67
        /\ EvOutcome.value.wordCount = 9
        /\ LengthScore(EvOutcome.value.wordCount) = 40
        /\ StructureScore(SentenceCount(InputAnswer)) = 50
        /\ EvOutcome.value.score = 56

\* C13 amended: the worked example matches scope only ("hoisted" does not contain
\* "hoisting"), misses hoisting and block, and has keywordScore 33, wordCount 8,
\* lengthScore 40, structureScore 50, score 39.
C13_WorkedExampleAmended ==
    IsWorkedExample =>
        /\ EvOutcome.value.matchedKeywords = << <<"s", "c", "o", "p", "e">> >>
        /\ EvOutcome.value.missedKeywords = << <<"h", "o", "i", "s", "t", "i", "n", "g">>, <<"b", "l", "o", "c", "k">> >>
        /\ EvOutcome.value.keywordScore = 33
        /\ EvOutcome.value.wordCount = 8
        /\ LengthScore(EvOutcome.value.wordCount) = 40
        /\ StructureScore(SentenceCount(InputAnswer)) = 50
        /\ EvOutcome.value.score = 39

\* The worked example has been evaluated.
C13_Witness == IsWorkedExample /\ EvOutcome.kind = "result"

-----------------------------------------------------------------------------
(* Heuristic fallback selection over pools of more than three candidates   *)

MaxFallbackBank == 4

FallbackCatalogue ==
    { Row(<<"e","a">>, "frontend", "Closures", "easy",   "technical"),
      Row(<<"h","a">>, "frontend", "Async",    "hard",   "technical"),
      Row(<<"m","a">>, "frontend", "DOM",      "medium", "technical"),
      Row(<<"h","b">>, "frontend", "Closures", "hard",   "technical"),
      Row(<<"e","b">>, "frontend", "Events",   "easy",   "technical") }

\* a bank holds each id once
FallbackBanks ==
    { s \in UNION { [1..n -> FallbackCatalogue] : n \in 0..MaxFallbackBank } :
        \A i, j \in 1..Len(s) : i # j => s[i].id # s[j].id }

FallbackIdLists ==
    { SeqOf(S) : S \in { T \in SUBSET { r.id : r \in FallbackCatalogue } : Cardinality(T) <= MaxExclude } }

FallbackContexts ==
    [ role : {"frontend"},
      difficulty : Opt({"easy"}),
      answeredQuestionIds : FallbackIdLists,
      recentScores : ScoreLists ]

\* no model is configured: every selection is the heuristic one, or the random one
FallbackInit ==
    /\ db \in FallbackBanks
    /\ questionsCache = None
    /\ lastCacheTime = None
    /\ now = StartTime
    /\ builtFrom = None
    /\ builtAt = None
    /\ readObs = None
    /\ filtObs = None
    /\ aiEnabled = FALSE
    /\ fallbackEnabled = TRUE
    /\ SelIdle
    /\ AppIdle
    /\ EvIdle

FallbackNext ==
    \/ \E ctx \in FallbackContexts : CallSelectNextQuestion(ctx)
    \/ SelectReturn

FallbackSpec == FallbackInit /\ [][FallbackNext]_vars

\* The rows of the bank a fallback selection for ctx chooses among: the role's (or
\* 'any'), unanswered, of the difficulty asked for if one is, and of the topics no
\* answered question has, unless that leaves none.
FallbackCandidates(ctx) ==
    LET answered == { ctx.answeredQuestionIds[k] : k \in 1..Len(ctx.answeredQuestionIds) }
        covered == { db[j].topic : j \in { j2 \in 1..Len(db) : db[j2].id \in answered } }
        pool == { j \in 1..Len(db) :
                    /\ db[j].role \in {ctx.role, "any"}
                    /\ db[j].id \notin answered
                    /\ ctx.difficulty # None => db[j].difficulty = ctx.difficulty[1] }
        fresh == { j \in pool : db[j].topic \notin covered }
    IN  IF fresh = {} THEN pool ELSE fresh

\* Rank of a difficulty for a strong candidate: hard, then medium, then easy
StrongRank(d) == IF d = "hard" THEN 0 ELSE IF d = "medium" THEN 1 ELSE 2

\* The candidates ahead of row j: of a better rank, or of the same rank and earlier
AheadOf(ctx, j) ==
    { i \in FallbackCandidates(ctx) :
        \/ StrongRank(db[i].difficulty) < StrongRank(db[j].difficulty)
        \/ StrongRank(db[i].difficulty) = StrongRank(db[j].difficulty) /\ i < j }

\* The first three candidates in that order
FirstThree(ctx) == { j \in FallbackCandidates(ctx) : Cardinality(AheadOf(ctx, j)) <= 2 }

\* A heuristic fallback selection has returned for scores averaging 70 or more.
StrongFallbackDone ==
    /\ selPc = "done"
    /\ selResult[1].kind = "question"
    /\ selResult[1].selectionMethod = "fallback"
    /\ Len(selCtx[1].recentScores) > 0
    /\ Sum(selCtx[1].recentScores) >= 70 * Len(selCtx[1].recentScores)

\* C16 as claimed: when a hard and an easy candidate are both among the first three,
\* the question returned is not the easy one.
C16_HardOverEasy ==
    ( /\ StrongFallbackDone
      /\ \E j \in FirstThree(selCtx[1]) : db[j].difficulty = "hard"
      /\ \E j \in FirstThree(selCtx[1]) : db[j].difficulty = "easy" )
        => selResult[1].question.metadata.difficulty # "easy"

\* C16 amended: the question returned is one of the first three candidates in the
\* order hard, medium, easy: at most two candidates are ahead of it.
C16_AmongFirstThree ==
    StrongFallbackDone =>
        \E j \in FirstThree(selCtx[1]) : db[j].id = selResult[1].question.id

\* Of four candidates the easy one in third place was returned, a hard one leading,
\* and the last candidate was left out.
C16_Witness ==
    /\ StrongFallbackDone
    /\ Cardinality(FallbackCandidates(selCtx[1])) = 4
    /\ selResult[1].question.metadata.difficulty = "easy"
    /\ \E j \in FirstThree(selCtx[1]) : db[j].difficulty = "hard"

-----------------------------------------------------------------------------
(* Model failures of a selection                                           *)

\* The ids of the questions the model was asked to choose among: the rows of the
\* role (or 'any'), unanswered, of the difficulty asked for if one is
CandidateIds(ctx) ==
    { db[j].id : j \in { j2 \in Remaining(ctx) :
                           ctx.difficulty # None => db[j2].difficulty = ctx.difficulty[1] } }

\* The model call of the selection failed: it was rejected, or its response names
\* none of the candidates.
SelModelFailed ==
    /\ selModelSaid # None
    /\ \/ selModelSaid[1].kind = "rejected"
       \/ /\ selModelSaid[1].kind = "resolved"
          /\ selModelSaid[1].names \cap CandidateIds(selCtx[1]) = {}

\* C20: a selection whose model call failed (an error, or a response naming no
\* candidate) throws to the caller when fallback is disabled, and returns a
\* question when fallback is enabled.
C20_SelectFailurePolicy ==
    (selPc = "done" /\ SelModelFailed) =>
        IF fallbackEnabled
        THEN selResult[1].kind = "question"
        ELSE selResult[1].kind = "error"

-----------------------------------------------------------------------------
(* FeedbackService.calculateSessionFeedback (feedback.js)                  *)

MaxSessionAnswers == 3

\* (mutant) answers without a score are kept and count as 0
ValidScoresAll(answers) == answers

\* answers.filter(a => a.score !== null)
ValidScores(answers) == SelectSeq(answers, LAMBDA a : a.score # None)

\* a.score || 0, which is also what adding a null score adds
ScoreOrZero(a) == IF a.score = None THEN 0 ELSE a.score[1]

\* reduce((sum, a) => sum + a.score, 0)
ScoreSum(answers) == Sum([ i \in 1..Len(answers) |-> ScoreOrZero(answers[i]) ])

\* The keys of topicScores in the order forEach created them
TopicKeys(answers) ==
    LET first == { i \in 1..Len(answers) :
                     /\ answers[i].topic # None
                     /\ \A j \in 1..(i - 1) : answers[j].topic # answers[i].topic }
        keep == [ i \in 1..Len(answers) |-> i \in first ]
        idx == SelectSeq([ i \in 1..Len(answers) |-> i ], LAMBDA i : keep[i])
    IN  [ k \in 1..Len(idx) |-> answers[idx[k]].topic[1] ]

\* topicScores[topic] = Math.round(total / count) over the answers of the topic
TopicScore(answers, topic) ==
    LET mine == SelectSeq(answers, LAMBDA a : a.topic = Some(topic))
    IN  RoundHalfUp(ScoreSum(mine), Len(mine))

\* (mutant) every answer earns the bonus
ReadinessBonusUncapped(count) == 4 * count

\* Math.min(answers.length, 10) * 4
ReadinessBonus(count) == (IF count < 10 THEN count ELSE 10) * 4

\* Math.min(100, Math.round(overallScore * 0.6 + bonus))
ReadinessScore(overallScore, count) ==
    LET r == RoundHalfUp(6 * overallScore + 10 * ReadinessBonus(count), 10)
    IN  IF r > 100 THEN 100 ELSE r

\* calculateSessionFeedback(answers); answers is None for null
CalculateSessionFeedback(answers) ==
    IF answers = None \/ Len(answers[1]) = 0
    THEN [ overallScore |-> 0, topicScores |-> <<>>, strengths |-> <<>>, weaknesses |-> <<>>,
           recommendations |-> <<>>, readinessScore |-> 0 ]
    ELSE LET list == answers[1]
             validScores == ValidScores(list)
             overallScore == IF Len(validScores) > 0
                             THEN RoundHalfUp(ScoreSum(validScores), Len(validScores))
                             ELSE 0
             keys == TopicKeys(list)
             topicScores == [ k \in 1..Len(keys) |->
                                [ topic |-> keys[k], score |-> TopicScore(list, keys[k]) ] ]
             strong == SelectSeq(topicScores, LAMBDA t : t.score >= 70)
             weak == SelectSeq(topicScores, LAMBDA t : t.score < 50)
             strengths == [ k \in 1..Len(strong) |-> strong[k].topic ]
             weaknesses == [ k \in 1..Len(weak) |-> weak[k].topic ]
             recommendations ==
                (IF Len(weaknesses) > 0 THEN << <<"Focus on improving:", weaknesses>> >> ELSE <<>>)
                \o (IF overallScore < 50
                    THEN << "Review fundamental concepts and practice more" >>
                    ELSE IF overallScore < 70
                    THEN << "Good foundation, now work on depth and examples" >>
                    ELSE << "Strong performance! Try harder difficulty questions" >>)
         IN  [ overallScore |-> overallScore,
               topicScores |-> topicScores,
               strengths |-> strengths,
               weaknesses |-> weaknesses,
               recommendations |-> recommendations,
               readinessScore |-> ReadinessScore(overallScore, Len(list)) ]

\* rows of session_answers joined with their question: a topic and a score or NULL
SessionScores == {30, 45, 60, 80, 100}
SessionAnswers == [ topic : Opt({"A", "B"}), score : Opt(SessionScores) ]

\* sessions longer than the answers that earn a readiness bonus
LongSessions == { [ i \in 1..n |-> a ] : n \in {9, 10, 11, 12}, a \in SessionAnswers }

SessionInputs ==
    Opt(UNION { [ 1..n -> SessionAnswers ] : n \in 0..MaxSessionAnswers } \cup LongSessions)

SessionInit ==
    /\ db = <<>>
    /\ questionsCache = None
    /\ lastCacheTime = None
    /\ now = StartTime
    /\ builtFrom = None
    /\ builtAt = None
    /\ readObs = None
    /\ filtObs = None
    /\ aiEnabled = FALSE
    /\ fallbackEnabled = TRUE
    /\ SelIdle
    /\ AppIdle
    /\ evModel = FALSE
    /\ evPc = "session"
    /\ evInput \in { Some([ answers |-> a ]) : a \in SessionInputs }
    /\ evRule = None
    /\ evHangs = FALSE
    /\ evModelSaid = None
    /\ evResult = None

\* feedbackService.calculateSessionFeedback(answers) on the answers at hand
CallCalculateSessionFeedback ==
    /\ evPc = "session"
    /\ evPc' = "sessionDone"
    /\ evResult' = Some(Returned(CalculateSessionFeedback(evInput[1].answers)))
    /\ UNCHANGED <<storeVars, obsVars, envVars, appVars, selVars, evModel, evInput, evRule, evHangs, evModelSaid>>

SessionNext == CallCalculateSessionFeedback

SessionSpec == SessionInit /\ [][SessionNext]_vars

-----------------------------------------------------------------------------
(* Session feedback: the claims about calculateSessionFeedback             *)

SessionDone == evPc = "sessionDone"
SessionIn == IF evInput[1].answers = None THEN <<>> ELSE evInput[1].answers[1]
SessionOut == evResult[1].value

\* The indices of the answers that carry a score
Scored(list) == { i \in 1..Len(list) : list[i].score # None }

\* The sum of the scores of the answers at the indices I
RECURSIVE TotalOver(_, _)
TotalOver(list, I) ==
    IF I = {} THEN 0
    ELSE LET i == CHOOSE j \in I : TRUE
         IN  list[i].score[1] + TotalOver(list, I \ {i})

\* o is the mean total / n rounded to the nearest integer, halves up
IsRoundedMean(o, total, n) == 2 * n * o <= 2 * total + n /\ 2 * total + n < 2 * n * o + 2 * n

ExampleSession ==
    << [ topic |-> Some("A"), score |-> Some(80) ],
       [ topic |-> Some("A"), score |-> Some(60) ],
       [ topic |-> Some("B"), score |-> Some(30) ] >>

\* C17: overallScore is the rounded mean of the non-null scores, null-scored
\* answers left out of the denominator, 0 when no answer has a score, and
\* every field zero or empty for empty input; for [A:80, A:60, B:30] it is
\* 57 with strengths [A] and weaknesses [B].
C17_OverallScore ==
    SessionDone =>
        LET list == SessionIn
            out == SessionOut
            I == Scored(list)
        IN  /\ Len(list) = 0 =>
                out = [ overallScore |-> 0, topicScores |-> <<>>, strengths |-> <<>>,
                        weaknesses |-> <<>>, recommendations |-> <<>>, readinessScore |-> 0 ]
            /\ I = {} => out.overallScore = 0
            /\ I # {} => IsRoundedMean(out.overallScore, TotalOver(list, I), Cardinality(I))
            /\ list = ExampleSession =>
                /\ out.overallScore = 57
                /\ out.strengths = << "A" >>
                /\ out.weaknesses = << "B" >>

\* A session with an unscored answer among scored ones has been summarised
C17_Witness ==
    /\ SessionDone
    /\ Len(SessionIn) = 3
    /\ Cardinality(Scored(SessionIn)) = 2
    /\ SessionOut.overallScore = 55

\* C18: for every topic among the answers topicScores[topic] is the rounded
\* mean over the answers of the topic that count for overallScore (the ones
\* with a score); when all answers share one topic its score is overallScore.
C18_TopicScores ==
    SessionDone =>
        LET list == SessionIn
            out == SessionOut
            Of(t) == { i \in Scored(list) : list[i].topic = Some(t) }
        IN  /\ \A k \in 1..Len(out.topicScores) :
                  LET t == out.topicScores[k].topic
                  IN  Of(t) # {} =>
                        IsRoundedMean(out.topicScores[k].score, TotalOver(list, Of(t)), Cardinality(Of(t)))
            /\ \A t \in {"A", "B"} :
                  (Len(list) > 0 /\ \A i \in 1..Len(list) : list[i].topic = Some(t)) =>
                      /\ Len(out.topicScores) = 1
                      /\ out.topicScores[1].topic = t
                      /\ out.topicScores[1].score = out.overallScore

\* C19: readinessScore = min(100, round(0.6 * overallScore + 4 * min(count, 10)))
\* and lies in 0..100; for the three-answer example it is 46.
C19_ReadinessScore ==
    SessionDone =>
        LET list == SessionIn
            out == SessionOut
            n == Len(list)
            bonus == 4 * (IF n < 10 THEN n ELSE 10)
            tenfold == 6 * out.overallScore + 10 * bonus
        IN  /\ out.readinessScore \in 0..100
            /\ \E r \in 0..200 :
                  /\ 10 * r <= tenfold + 5
                  /\ tenfold + 5 < 10 * r + 10
                  /\ out.readinessScore = IF r > 100 THEN 100 ELSE r
            /\ list = ExampleSession => out.readinessScore = 46

\* A session of more answers than earn a bonus has been summarised
C19_Witness ==
    /\ SessionDone
    /\ Len(SessionIn) = 11
    /\ SessionOut.overallScore = 80
    /\ SessionOut.readinessScore = 88

-----------------------------------------------------------------------------
(* How a selection is made: model pick, heuristic fallback, random pick    *)

\* The rows of the bank a selection for ctx asks the model about, or orders by
\* difficulty: the role's (or 'any'), unanswered, of the difficulty asked for if one is
CandidateRows(ctx) ==
    { j \in Remaining(ctx) : ctx.difficulty # None => db[j].difficulty = ctx.difficulty[1] }

\* The model call of the selection resolved with a text.
ModelResolved ==
    /\ selPc = "done"
    /\ selModelSaid # None
    /\ selModelSaid[1].kind = "resolved"

\* The candidates whose id the response contains
NamedRows == { j \in CandidateRows(selCtx[1]) : db[j].id \in selModelSaid[1].names }

\* C22: when the model's response contains the id of a candidate, the result is the
\* first candidate in list order whose id it contains, tagged ai; when it contains
\* none, the result is a heuristic fallback pick among the same candidates, tagged
\* fallback.
C22_ModelPickOrFallback ==
    ModelResolved =>
        /\ selResult[1].kind = "question"
        /\ IF NamedRows # {}
           THEN /\ selResult[1].selectionMethod = "ai"
                /\ \E j \in NamedRows :
                      /\ \A i \in NamedRows : j <= i
                      /\ selResult[1].question.id = db[j].id
           ELSE /\ selResult[1].selectionMethod = "fallback"
                /\ \E j \in FallbackCandidates(selCtx[1]) : selResult[1].question.id = db[j].id

\* The response contains the ids of two candidates, and the one earlier in the list
\* was returned.
C22_Witness ==
    /\ ModelResolved
    /\ Cardinality(NamedRows) = 2
    /\ selResult[1].selectionMethod = "ai"
    /\ \E j \in NamedRows : selResult[1].question.id = db[j].id /\ \A i \in NamedRows : j <= i

\* The response names no candidate and a fallback pick was returned.
C22_WitnessFallback ==
    /\ ModelResolved
    /\ NamedRows = {}
    /\ selModelSaid[1].names # {}
    /\ selResult[1].selectionMethod = "fallback"

\* C23: a call returns a result tagged random exactly when no unanswered question
\* matches role and difficulty while one matches the role alone; the pick is then
\* one of the latter, and neither the model nor the heuristic fallback was used,
\* whether or not a model is enabled.
C23_RandomIffRelaxed ==
    selPc = "done" =>
        LET isRandom == selResult[1].kind = "question" /\ selResult[1].selectionMethod = "random"
        IN  /\ isRandom <=> (CandidateRows(selCtx[1]) = {} /\ Remaining(selCtx[1]) # {})
            /\ isRandom =>
                  /\ \E j \in Remaining(selCtx[1]) : selResult[1].question.id = db[j].id
                  /\ selModelSaid = None

\* With a model enabled, a random pick was returned from a relaxed pool of two.
C23_Witness ==
    /\ selPc = "done"
    /\ aiEnabled
    /\ selResult[1].kind = "question"
    /\ selResult[1].selectionMethod = "random"
    /\ Cardinality(Remaining(selCtx[1])) = 2
    /\ CandidateRows(selCtx[1]) = {}

\* C29: when the context names a difficulty and an unanswered question of the role
\* (or 'any') has it, the call returns a question of exactly that difficulty,
\* whatever recentScores and the model's response are (a rejected model call with
\* fallback disabled throws and returns nothing); a question of another difficulty
\* is returned only when no unanswered question of the requested one remains.
C29_RequestedDifficulty ==
    (selPc = "done" /\ selCtx[1].difficulty # None) =>
        /\ CandidateRows(selCtx[1]) # {} =>
              /\ selResult[1].kind # "null"
              /\ selResult[1].kind = "question" =>
                    selResult[1].question.metadata.difficulty = selCtx[1].difficulty[1]
              /\ selResult[1].kind = "error" =>
                    (selModelSaid = Some([ kind |-> "rejected" ]) /\ ~fallbackEnabled)
        /\ ( /\ selResult[1].kind = "question"
             /\ selResult[1].question.metadata.difficulty # selCtx[1].difficulty[1] )
              => CandidateRows(selCtx[1]) = {}

\* After strong scores and a response that names no candidate, an easy question was
\* returned as asked although a hard one of the role is unanswered.
C29_Witness ==
    /\ ModelResolved
    /\ NamedRows = {}
    /\ selCtx[1].difficulty = Some("easy")
    /\ selCtx[1].recentScores = <<90, 85>>
    /\ selResult[1].kind = "question"
    /\ selResult[1].question.metadata.difficulty = "easy"
    /\ \E j \in Remaining(selCtx[1]) : db[j].difficulty = "hard"

-----------------------------------------------------------------------------
(* Topic diversity of the heuristic fallback                               *)

\* The topics of the answered questions the bank holds
CoveredTopics(ctx) ==
    { db[j].topic : j \in { j2 \in 1..Len(db) : ArrayIncludes(ctx.answeredQuestionIds, db[j2].id) } }

\* C25: in heuristic fallback selection, if a candidate has a topic no answered
\* question has, the returned question's topic is not covered; if every
\* candidate's topic is covered, a question is still returned, one of the full
\* candidate set.
C25_TopicDiversitySoft ==
    (selPc = "done" /\ CandidateRows(selCtx[1]) # {}) =>
        LET C == CandidateRows(selCtx[1])
            covered == CoveredTopics(selCtx[1])
        IN  /\ selResult[1].kind = "question"
            /\ selResult[1].selectionMethod = "fallback"
            /\ \E j \in C : selResult[1].question.id = db[j].id
            /\ (\E j \in C : db[j].topic \notin covered)
                  => selResult[1].question.metadata.topic \notin covered

\* Every candidate's topic is covered and a question was returned all the same.
C25_Witness ==
    /\ selPc = "done"
    /\ CandidateRows(selCtx[1]) # {}
    /\ \A j \in CandidateRows(selCtx[1]) : db[j].topic \in CoveredTopics(selCtx[1])
    /\ selResult[1].kind = "question"
    /\ selResult[1].selectionMethod = "fallback"

\* A candidate of a covered topic was passed over for one of a topic not covered.
C25_WitnessUncovered ==
    /\ selPc = "done"
    /\ selResult[1].kind = "question"
    /\ selResult[1].selectionMethod = "fallback"
    /\ selResult[1].question.metadata.topic \notin CoveredTopics(selCtx[1])
    /\ \E j \in CandidateRows(selCtx[1]) : db[j].topic \in CoveredTopics(selCtx[1])

-----------------------------------------------------------------------------
(* QuestionSelector.selectQuestionsForSession (questionSelector.js)        *)

MaxCount == 3    \* the largest count a batch selection is asked for

\* (mutant) usedIds is the caller's array itself, not a copy of it
PushUsedAliased(b, q) ==
    [ b EXCEPT !.questions = Append(@, q),
               !.usedIds = Append(@, q.id),
               !.sessionContext.answeredQuestionIds = Append(@, q.id) ]

\* questions.push(result.question); usedIds.push(result.question.id)
PushUsed(b, q) ==
    [ b EXCEPT !.questions = Append(@, q),
               !.usedIds = Append(@, q.id) ]

\* { ...sessionContext, answeredQuestionIds: usedIds, recentScores: scores }
BatchContext(b) ==
    [ b.sessionContext EXCEPT !.answeredQuestionIds = b.usedIds, !.recentScores = b.scores ]

\* selectQuestionsForSession(sessionContext, count) up to the test of its loop:
\* questions = [], usedIds and scores are copies of the caller's arrays, i = 0
\* (given and methods are history: the caller's list as passed, and the
\* selectionMethod of each result pushed)
SelectQuestionsForSession(sessionContext, count) ==
    /\ batch = None
    /\ selPc = "idle"
    /\ batch' = Some([ sessionContext |-> sessionContext,
                       given |-> sessionContext.answeredQuestionIds,
                       count |-> count,
                       i |-> 0,
                       questions |-> <<>>,
                       methods |-> <<>>,
                       usedIds |-> sessionContext.answeredQuestionIds,
                       scores |-> sessionContext.recentScores,
                       pc |-> IF 0 < count THEN "calling" ELSE "returned" ])

\* The loop body calls selectNextQuestion and is suspended at its await.
BatchIterate ==
    /\ batch # None
    /\ batch[1].pc = "calling"
    /\ SelectNextQuestion(BatchContext(batch[1]))
    /\ batch' = Some([ batch[1] EXCEPT !.pc = "awaiting" ])
    /\ UNCHANGED <<interviewSessions, sessionAnswers, sessionFeedback, handlers, lastResponse>>

\* The awaited call has settled: a throw leaves the loop and the function, an absent
\* result breaks the loop, a question is pushed and i++ is tested against count.
BatchResume ==
    /\ batch # None
    /\ batch[1].pc = "awaiting"
    /\ selPc = "done"
    /\ LET r == selResult[1]
           b == batch[1]
       IN  batch' = Some(IF r.kind = "error" THEN [ b EXCEPT !.pc = "threw" ]
                         ELSE IF r.kind = "null" THEN [ b EXCEPT !.pc = "returned" ]
                         ELSE [ PushUsed(b, r.question) EXCEPT
                                  !.methods = Append(@, r.selectionMethod),
                                  !.i = @ + 1,
                                  !.pc = IF b.i + 1 < b.count THEN "calling" ELSE "returned" ])
    /\ selPc' = "idle"
    /\ selCtx' = None
    /\ selAvail' = None
    /\ selResult' = None
    /\ selModelSaid' = None
    /\ UNCHANGED <<storeVars, obsVars, envVars, selModel, evVars>>
    /\ UNCHANGED <<interviewSessions, sessionAnswers, sessionFeedback, handlers, lastResponse>>

\* selectQuestionsForSession called from outside the routes.
CallSelectQuestionsForSession(sessionContext, count) ==
    /\ handlers = <<>>
    /\ SelectQuestionsForSession(sessionContext, count)
    /\ UNCHANGED <<storeVars, obsVars, envVars, selVars, evVars>>
    /\ UNCHANGED <<interviewSessions, sessionAnswers, sessionFeedback, handlers, lastResponse>>

\* That caller has taken the questions (or the error).
BatchReturn ==
    /\ handlers = <<>>
    /\ batch # None
    /\ batch[1].pc \in {"returned", "threw"}
    /\ batch' = None
    /\ UNCHANGED <<storeVars, obsVars, envVars, selVars, evVars>>
    /\ UNCHANGED <<interviewSessions, sessionAnswers, sessionFeedback, handlers, lastResponse>>

BatchContexts ==
    [ role : {"frontend", "backend"},
      difficulty : Opt({"easy"}),
      answeredQuestionIds : IdLists,
      recentScores : {<<>>} ]

\* What the model answers to a selection prompt of the batch: a text with no id, or
\* with two ids
BatchResponses == { <<"c">>, <<"c", "b", "a">> }

BatchInit ==
    /\ db \in BanksUpTo(MaxSelBank)
    /\ questionsCache = None
    /\ lastCacheTime = None
    /\ now = StartTime
    /\ builtFrom = None
    /\ builtAt = None
    /\ readObs = None
    /\ filtObs = None
    /\ aiEnabled \in BOOLEAN
    /\ fallbackEnabled \in BOOLEAN
    /\ SelIdle
    /\ AppIdle
    /\ EvIdle

BatchNext ==
    \/ \E ctx \in BatchContexts, count \in 0..MaxCount : CallSelectQuestionsForSession(ctx, count)
    \/ BatchIterate
    \/ \E response \in BatchResponses : AiSelectResolves(response)
    \/ AiSelectRejects
    \/ BatchResume
    \/ BatchReturn

BatchSpec == BatchInit /\ [][BatchNext]_vars

\* The minimum of two numbers
Least(a, b) == IF a < b THEN a ELSE b

\* C24: with fallback enabled a batch selection returns pairwise-distinct
\* questions, none of the initial answeredQuestionIds, exactly min(count, number of
\* unanswered questions of the role or 'any') of them (each chosen id was excluded
\* from the next pick, and the first absent result stopped the loop), and the
\* caller's answeredQuestionIds list is as it was given.
C24_BatchDistinctAndFull ==
    (batch # None /\ batch[1].pc \in {"returned", "threw"}) =>
        LET b == batch[1]
            qs == b.questions
            initial == [ b.sessionContext EXCEPT !.answeredQuestionIds = b.given ]
        IN  /\ b.sessionContext.answeredQuestionIds = b.given
            /\ \A m, n \in 1..Len(qs) : m # n => qs[m].id # qs[n].id
            /\ \A m \in 1..Len(qs) : ~ArrayIncludes(b.given, qs[m].id)
            /\ \A m \in 1..Len(qs) : \E j \in Remaining(initial) : db[j].id = qs[m].id
            /\ fallbackEnabled =>
                  /\ b.pc = "returned"
                  /\ Len(qs) = Least(b.count, Cardinality(Remaining(initial)))

\* A batch stopped at count with a question of the role left over, after one answered.
C24_Witness ==
    /\ batch # None
    /\ batch[1].pc = "returned"
    /\ fallbackEnabled
    /\ aiEnabled
    /\ Len(batch[1].given) = 1
    /\ Len(batch[1].questions) = 2
    /\ batch[1].count = 2
    /\ Cardinality(Remaining([ batch[1].sessionContext EXCEPT !.answeredQuestionIds = batch[1].given ])) = 3

\* A batch stopped early at an absent result, short of count.
C24_WitnessEarly ==
    /\ batch # None
    /\ batch[1].pc = "returned"
    /\ Len(batch[1].questions) = 1
    /\ batch[1].count = 3

-----------------------------------------------------------------------------
(* The interview routes (routes/interviews.js): POST /start,               *)
(* POST /:sessionId/answer, GET /:sessionId/next-question and              *)
(* POST /:sessionId/complete of one user, over the tables                  *)
(* interview_sessions, session_answers and session_feedback.               *)

MaxSessions == 1   \* sessions started
MaxAnswers == 3    \* rows of table session_answers
MaxInFlight == 2   \* handlers suspended at an await at the same time

\* evaluation.score of an answer, whatever evaluator gave it
RouteScores == {80}

\* the bank the routes run over
RouteBank ==
    << Row(<<"a","b">>, "frontend", "JavaScript", "easy",   "technical"),
       Row(<<"b","a">>, "frontend", "JavaScript", "hard",   "technical"),
       Row(<<"c","b">>, "any",      "Teamwork",   "easy",   "behavioral") >>

\* SELECT * FROM questions WHERE id = ?
QuestionRow(id) ==
    IF \E j \in 1..Len(db) : db[j].id = id
    THEN Some(db[CHOOSE j \in 1..Len(db) : db[j].id = id])
    ELSE None

\* SELECT * FROM interview_sessions WHERE id = ? AND user_id = ?
SessionRow(sessionId) ==
    IF sessionId \in DOMAIN interviewSessions THEN Some(interviewSessions[sessionId]) ELSE None

\* SELECT ... FROM session_answers WHERE session_id = ?
AnswerRows(rows, sessionId) == SelectSeq(rows, LAMBDA a : a.session_id = sessionId)

\* The response res.status(status).json(body) of a route, as the last one sent
Respond(route, sessionId, status, body) ==
    lastResponse' = Some([ route |-> route, sessionId |-> sessionId, status |-> status, body |-> body ])

\* The handler at position k of handlers has run to its end.
Without(k) == SubSeq(handlers, 1, k - 1) \o SubSeq(handlers, k + 1, Len(handlers))

(* ---- POST /start ---- *)

\* The static query: WHERE (role = ? OR role = 'any') [AND difficulty = ?]
\* ORDER BY RANDOM() LIMIT ?  (the number of rows it returns)
StaticQuestions(role, difficulty, questionCount) ==
    LET rows == { j \in 1..Len(db) :
                    /\ db[j].role = role \/ db[j].role = "any"
                    /\ difficulty # "adaptive" => db[j].difficulty = difficulty }
    IN  IF Cardinality(rows) < questionCount THEN Cardinality(rows) ELSE questionCount

\* From "if (questions.length === 0)" to the response: the session is saved with
\* total_questions = questions.length
SaveSession(role, difficulty, total, selectionMethod, chosenBy) ==
    IF total = 0
    THEN /\ Respond("start", 0, 400, [ error |-> "No questions available for this role" ])
         /\ UNCHANGED interviewSessions
    ELSE /\ interviewSessions' = Append(interviewSessions,
                [ role |-> role, difficulty |-> difficulty, total_questions |-> total,
                  answered_questions |-> 0, status |-> "in_progress", score |-> None ])
         /\ Respond("start", Len(interviewSessions) + 1, 201,
                    [ totalQuestions |-> total, selectionMethod |-> selectionMethod,
                      chosenBy |-> chosenBy ])

\* POST /start with AI disabled: the whole handler.
\* POST /start with AI enabled: up to the await of selectQuestionsForSession.
Start(role, difficulty, questionCount) ==
    /\ Len(interviewSessions) + Cardinality({ k \in 1..Len(handlers) : handlers[k].route = "start" })
          < MaxSessions
    /\ IF aiEnabled
       THEN /\ Len(handlers) < MaxInFlight
            /\ \A k \in 1..Len(handlers) : handlers[k].route # "next"
            /\ SelectQuestionsForSession(
                 [ role |-> role,
                   difficulty |-> Some(IF difficulty = "adaptive" THEN "medium" ELSE difficulty),
                   answeredQuestionIds |-> <<>>,
                   recentScores |-> <<>> ], questionCount)
            /\ handlers' = Append(handlers, [ route |-> "start", sessionId |-> 0,
                                              arg |-> [ role |-> role, difficulty |-> difficulty,
                                                        questionCount |-> questionCount ] ])
            /\ UNCHANGED <<interviewSessions, lastResponse>>
       ELSE /\ SaveSession(role, difficulty, StaticQuestions(role, difficulty, questionCount),
                           "static", {})
            /\ UNCHANGED <<batch, handlers>>
    /\ UNCHANGED <<sessionAnswers, sessionFeedback>>
    /\ UNCHANGED <<storeVars, obsVars, envVars, selVars, evVars>>

\* selectQuestionsForSession has settled and POST /start goes on to its response.
StartResume ==
    \E k \in 1..Len(handlers) :
        /\ handlers[k].route = "start"
        /\ batch # None
        /\ batch[1].pc \in {"returned", "threw"}
        /\ LET a == handlers[k].arg
               b == batch[1]
               picked == b.pc = "returned" /\ Len(b.questions) > 0
           IN  IF picked
               THEN SaveSession(a.role, a.difficulty, Len(b.questions), "ai",
                                { b.methods[m] : m \in 1..Len(b.methods) })
               ELSE SaveSession(a.role, a.difficulty,
                                StaticQuestions(a.role, a.difficulty, a.questionCount),
                                "static", {})
        /\ batch' = None
        /\ handlers' = Without(k)
        /\ UNCHANGED <<sessionAnswers, sessionFeedback>>
        /\ UNCHANGED <<storeVars, obsVars, envVars, selVars, evVars>>

(* ---- POST /:sessionId/answer ---- *)

\* SELECT id FROM session_answers WHERE session_id = ? AND question_id = ?
ExistingAnswer(sessionId, questionId) ==
    \E k \in 1..Len(sessionAnswers) :
        sessionAnswers[k].session_id = sessionId /\ sessionAnswers[k].question_id = questionId

\* The checks of POST /:sessionId/answer before the evaluation: the error response
\* they end with, or None when the answer goes on to be evaluated
AnswerRefusal(sessionId, questionId) ==
    LET session == SessionRow(sessionId)
    IN  IF session = None THEN Some([ status |-> 404, error |-> "Session not found" ])
        ELSE IF session[1].status # "in_progress"
        THEN Some([ status |-> 400, error |-> "Session is not in progress" ])
        ELSE IF QuestionRow(questionId) = None
        THEN Some([ status |-> 404, error |-> "Question not found" ])
        ELSE IF ExistingAnswer(sessionId, questionId)
        THEN Some([ status |-> 400, error |-> "Question already answered" ])
        ELSE None

\* From "Save the answer" to the response: INSERT INTO session_answers, then
\* UPDATE interview_sessions SET answered_questions = answered_questions + 1
SaveAnswer(sessionId, questionId, score) ==
    /\ sessionAnswers' = Append(sessionAnswers,
            [ session_id |-> sessionId, question_id |-> questionId, score |-> score ])
    /\ interviewSessions' =
            [ interviewSessions EXCEPT ![sessionId].answered_questions = @ + 1 ]
    /\ Respond("answer", sessionId, 200, [ questionId |-> questionId, score |-> score ])

\* POST /:sessionId/answer with AI disabled: the whole handler (the heuristic
\* evaluation has no await).
\* With AI enabled: up to the await of answerEvaluator.evaluateAnswer.
Answer(sessionId, questionId) ==
    /\ Len(sessionAnswers) + Cardinality({ k \in 1..Len(handlers) : handlers[k].route = "answer" })
          < MaxAnswers
    /\ LET refusal == AnswerRefusal(sessionId, questionId)
       IN  IF refusal # None
           THEN /\ Respond("answer", sessionId, refusal[1].status, [ error |-> refusal[1].error ])
                /\ UNCHANGED <<interviewSessions, sessionAnswers, handlers>>
           ELSE IF aiEnabled
           THEN /\ Len(handlers) < MaxInFlight
                /\ handlers' = Append(handlers, [ route |-> "answer", sessionId |-> sessionId,
                                                  arg |-> [ questionId |-> questionId ] ])
                /\ UNCHANGED <<interviewSessions, sessionAnswers, lastResponse>>
           ELSE /\ \E score \in RouteScores : SaveAnswer(sessionId, questionId, score)
                /\ UNCHANGED handlers
    /\ UNCHANGED <<batch, sessionFeedback>>
    /\ UNCHANGED <<storeVars, obsVars, envVars, selVars, evVars>>

\* The evaluation has settled (the model's, blended, or the rules after a failure:
\* each gives a score) and the handler saves the answer.
AnswerResume ==
    \E k \in 1..Len(handlers) :
        /\ handlers[k].route = "answer"
        /\ \E score \in RouteScores :
              SaveAnswer(handlers[k].sessionId, handlers[k].arg.questionId, score)
        /\ handlers' = Without(k)
        /\ UNCHANGED <<batch, sessionFeedback>>
        /\ UNCHANGED <<storeVars, obsVars, envVars, selVars, evVars>>

(* ---- POST /:sessionId/complete ---- *)

\* (mutant) a completed session passes the check
AlreadyCompletedNever(session) == FALSE

\* session.status === 'completed'
AlreadyCompleted(session) == session.status = "completed"

\* SELECT sa.*, q.topic ... FROM session_answers sa JOIN questions q: each answer
\* of the session with the topic of its question
AnswersWithTopic(sessionId) ==
    LET rows == AnswerRows(sessionAnswers, sessionId)
    IN  [ k \in 1..Len(rows) |->
            [ topic |-> Some(QuestionRow(rows[k].question_id)[1].topic),
              score |-> Some(rows[k].score) ] ]

\* POST /:sessionId/complete: the handler has no await.  session_feedback.session_id
\* is UNIQUE: a second INSERT for a session throws, after the UPDATE, and the catch
\* answers 500.  (answers and answered in the feedback row are history: the number
\* of answers summarised and answered_questions at that time.)
Complete(sessionId) ==
    LET session == SessionRow(sessionId)
    IN  /\ IF session = None
           THEN /\ Respond("complete", sessionId, 404, [ error |-> "Session not found" ])
                /\ UNCHANGED <<interviewSessions, sessionFeedback>>
           ELSE IF AlreadyCompleted(session[1])
           THEN /\ Respond("complete", sessionId, 400, [ error |-> "Session already completed" ])
                /\ UNCHANGED <<interviewSessions, sessionFeedback>>
           ELSE LET given == AnswersWithTopic(sessionId)
                    fb == CalculateSessionFeedback(Some(given))
                IN  /\ interviewSessions' =
                          [ interviewSessions EXCEPT ![sessionId].status = "completed",
                                                     ![sessionId].score = Some(fb.overallScore) ]
                    /\ IF \E k \in 1..Len(sessionFeedback) : sessionFeedback[k].session_id = sessionId
                       THEN /\ Respond("complete", sessionId, 500,
                                       [ error |-> "Failed to complete interview" ])
                            /\ UNCHANGED sessionFeedback
                       ELSE /\ sessionFeedback' = Append(sessionFeedback,
                                    [ session_id |-> sessionId,
                                      overall_score |-> fb.overallScore,
                                      readiness_score |-> fb.readinessScore,
                                      answers |-> Len(given),
                                      answered |-> session[1].answered_questions ])
                            /\ Respond("complete", sessionId, 200,
                                       [ overallScore |-> fb.overallScore,
                                         readinessScore |-> fb.readinessScore ])
        /\ UNCHANGED <<batch, sessionAnswers, handlers>>
        /\ UNCHANGED <<storeVars, obsVars, envVars, selVars, evVars>>

(* ---- GET /:sessionId/next-question ---- *)

\* SELECT * FROM questions WHERE role = ? AND difficulty IN (?, 'medium')
\* [AND id NOT IN (answered...)] LIMIT 20
AvailableQuestions(session, answeredQuestions) ==
    SelectSeq(db, LAMBDA q : /\ q.role = session.role
                              /\ q.difficulty \in {session.difficulty, "medium"}
                              /\ ~ArrayIncludes(answeredQuestions, q.id))

\* The target difficulty of the weighted random selection
TargetDifficulty(difficulty, scores) ==
    LET n == Len(scores)
    IN  IF n > 0 /\ Sum(scores) >= 80 * n
        THEN (IF difficulty = "easy" THEN "medium" ELSE "hard")
        ELSE IF n > 0 /\ Sum(scores) < 50 * n
        THEN (IF difficulty = "hard" THEN "medium" ELSE "easy")
        ELSE difficulty

\* "Fallback to weighted random selection": the questions pool[Math.floor(
\* Math.random() * pool.length)] can be
WeightedRandom(difficulty, scores, availableQuestions) ==
    LET targetQuestions ==
            SelectSeq(availableQuestions,
                      LAMBDA q : q.difficulty = TargetDifficulty(difficulty, scores))
        pool == IF Len(targetQuestions) > 0 THEN targetQuestions ELSE availableQuestions
    IN  { pool[i].id : i \in 1..Len(pool) }

\* The response with the question chosen (chosenBy is history: the selectionMethod
\* of the selector's result when the question is the selector's)
RespondQuestion(sessionId, session, id, selectionMethod, chosenBy) ==
    Respond("next-question", sessionId, 200,
            [ complete |-> FALSE, selectionMethod |-> selectionMethod,
              questionNumber |-> session.answered_questions + 1,
              question |-> id, chosenBy |-> chosenBy ])

\* GET /:sessionId/next-question with AI disabled: the whole handler.
\* With AI enabled: up to the await inside selectNextQuestion, or to the await of
\* its result.
NextQuestion(sessionId) ==
    LET session == SessionRow(sessionId)
        rows == AnswerRows(sessionAnswers, sessionId)
        answeredQuestions == [ k \in 1..Len(rows) |-> rows[k].question_id ]
        scores == [ k \in 1..Len(rows) |-> rows[k].score ]
        refused ==
            \/ session = None
            \/ session[1].status = "completed"
            \/ session[1].answered_questions >= session[1].total_questions
            \/ Len(AvailableQuestions(session[1], answeredQuestions)) = 0
    IN  /\ UNCHANGED <<batch, interviewSessions, sessionAnswers, sessionFeedback>>
        /\ IF refused
           THEN /\ IF session = None
                   THEN Respond("next-question", sessionId, 404, [ error |-> "Session not found" ])
                   ELSE IF session[1].status = "completed"
                   THEN Respond("next-question", sessionId, 400,
                                [ error |-> "Session already completed" ])
                   ELSE Respond("next-question", sessionId, 200, [ complete |-> TRUE ])
                /\ UNCHANGED handlers
                /\ UNCHANGED <<storeVars, obsVars, envVars, selVars, evVars>>
           ELSE IF aiEnabled
           THEN /\ batch = None
                /\ Len(handlers) < MaxInFlight
                /\ \A k \in 1..Len(handlers) : handlers[k].route \notin {"next", "start"}
                /\ SelectNextQuestion([ role |-> session[1].role,
                                        difficulty |-> Some(session[1].difficulty),
                                        answeredQuestionIds |-> answeredQuestions,
                                        recentScores |-> scores ])
                /\ handlers' = Append(handlers,
                        [ route |-> "next", sessionId |-> sessionId,
                          arg |-> [ session |-> session[1], scores |-> scores,
                                    availableQuestions |->
                                        AvailableQuestions(session[1], answeredQuestions) ] ])
                /\ UNCHANGED lastResponse
           ELSE /\ \E id \in WeightedRandom(session[1].difficulty, scores,
                                            AvailableQuestions(session[1], answeredQuestions)) :
                      RespondQuestion(sessionId, session[1], id, "random", {})
                /\ UNCHANGED handlers
                /\ UNCHANGED <<storeVars, obsVars, envVars, selVars, evVars>>

\* selectNextQuestion has settled and the handler goes on to its response: a result
\* with a question is reported as 'ai'; no result, or a throw, leaves the choice to
\* the weighted random selection.
NextQuestionResume ==
    \E k \in 1..Len(handlers) :
        /\ handlers[k].route = "next"
        /\ selPc = "done"
        /\ LET a == handlers[k].arg
               r == selResult[1]
           IN  IF r.kind = "question"
               THEN RespondQuestion(handlers[k].sessionId, a.session, r.question.id, "ai",
                                    {r.selectionMethod})
               ELSE \E id \in WeightedRandom(a.session.difficulty, a.scores, a.availableQuestions) :
                        RespondQuestion(handlers[k].sessionId, a.session, id, "random", {})
        /\ handlers' = Without(k)
        /\ selPc' = "idle"
        /\ selCtx' = None
        /\ selAvail' = None
        /\ selResult' = None
        /\ selModelSaid' = None
        /\ UNCHANGED <<batch, interviewSessions, sessionAnswers, sessionFeedback>>
        /\ UNCHANGED <<storeVars, obsVars, envVars, selModel, evVars>>

(* ---- the server under requests of one user ---- *)

RouteRoles == {"frontend"}
RouteDifficulties == {"easy", "adaptive"}
QuestionCounts == {3}

RouteInit ==
    /\ db = RouteBank
    /\ questionsCache = None
    /\ lastCacheTime = None
    /\ now = StartTime
    /\ builtFrom = None
    /\ builtAt = None
    /\ readObs = None
    /\ filtObs = None
    /\ aiEnabled \in BOOLEAN
    /\ fallbackEnabled \in BOOLEAN
    /\ SelIdle
    /\ AppIdle
    /\ EvIdle

RouteNext ==
    \/ \E role \in RouteRoles, difficulty \in RouteDifficulties, questionCount \in QuestionCounts :
          Start(role, difficulty, questionCount)
    \/ StartResume
    \/ \E sessionId \in 1..MaxSessions, questionId \in Ids : Answer(sessionId, questionId)
    \/ AnswerResume
    \/ \E sessionId \in 1..MaxSessions : NextQuestion(sessionId)
    \/ NextQuestionResume
    \/ \E sessionId \in 1..MaxSessions : Complete(sessionId)
    \/ BatchIterate
    \/ BatchResume
    \/ \E response \in BatchResponses : AiSelectResolves(response)
    \/ AiSelectRejects

RouteSpec == RouteInit /\ [][RouteNext]_vars

-----------------------------------------------------------------------------
(* The routes: provenance of a question, and the session tables            *)

\* The last response carries a selection method.
ReportsSelection ==
    /\ lastResponse # None
    /\ lastResponse[1].route \in {"start", "next-question"}
    /\ lastResponse[1].status \in {200, 201}
    /\ "selectionMethod" \in DOMAIN lastResponse[1].body

\* C21: the selection method reported with a chosen question is its provenance:
\* 'ai' is reported by /start and /next-question only for questions the model's
\* response picked, and a question the selector chose by heuristic fallback or
\* random pick is reported as 'fallback' or 'random'.
C21_ReportedProvenance ==
    ReportsSelection =>
        LET body == lastResponse[1].body
        IN  /\ body.selectionMethod = "ai" => body.chosenBy = {"ai"}
            /\ body.chosenBy # {} => body.selectionMethod \in body.chosenBy

\* The rows of session_answers of a session and a question
AnswersTo(sessionId, questionId) ==
    { k \in 1..Len(sessionAnswers) :
        sessionAnswers[k].session_id = sessionId /\ sessionAnswers[k].question_id = questionId }

\* C26: for every session and question at most one answer is stored, whatever the
\* interleaving of submissions (also while a model evaluation is pending), and
\* answered_questions counts each answered question once.
C26_OneAnswerPerQuestion ==
    \A sessionId \in DOMAIN interviewSessions :
        /\ \A questionId \in Ids : Cardinality(AnswersTo(sessionId, questionId)) <= 1
        /\ interviewSessions[sessionId].answered_questions
              = Cardinality({ questionId \in Ids : AnswersTo(sessionId, questionId) # {} })

\* The row of session_feedback of a session (the table holds it)
FeedbackRow(sessionId) ==
    sessionFeedback[CHOOSE k \in 1..Len(sessionFeedback) : sessionFeedback[k].session_id = sessionId]

\* C27: once a session is completed no answer is added to it and its answered
\* count does not change: the stored feedback is computed over all the answers the
\* session holds, and answered_questions is what it was at completion.
C27_NoAnswerAfterComplete ==
    \A sessionId \in DOMAIN interviewSessions :
        interviewSessions[sessionId].status = "completed" =>
            /\ FeedbackRow(sessionId).answers = Len(AnswerRows(sessionAnswers, sessionId))
            /\ FeedbackRow(sessionId).answered = interviewSessions[sessionId].answered_questions

\* C28: in every reachable state of a session answered_questions <= total_questions.
C28_AnsweredWithinBudget ==
    \A sessionId \in DOMAIN interviewSessions :
        interviewSessions[sessionId].answered_questions
            <= interviewSessions[sessionId].total_questions

\* The rows of session_feedback of a session, in a table
FeedbackOf(table, sessionId) == SelectSeq(table, LAMBDA f : f.session_id = sessionId)

\* One step of the server, as C30 has it.
CompletedStaysCompleted ==
    /\ \A sessionId \in DOMAIN interviewSessions :
          /\ sessionId \in DOMAIN interviewSessions'
          /\ interviewSessions[sessionId].status = "completed" =>
                /\ interviewSessions'[sessionId].status = "completed"
                /\ interviewSessions'[sessionId].score = interviewSessions[sessionId].score
                /\ FeedbackOf(sessionFeedback', sessionId) = FeedbackOf(sessionFeedback, sessionId)
    /\ \A sessionId \in DOMAIN interviewSessions' :
          /\ interviewSessions'[sessionId].status \in {"in_progress", "completed"}
          /\ Len(FeedbackOf(sessionFeedback', sessionId))
                = IF interviewSessions'[sessionId].status = "completed" THEN 1 ELSE 0
    /\ \A sessionId \in DOMAIN interviewSessions :
          ( /\ interviewSessions[sessionId].status = "completed"
            /\ lastResponse' # lastResponse
            /\ lastResponse'[1].route = "complete"
            /\ lastResponse'[1].sessionId = sessionId )
              => /\ lastResponse'[1].status = 400
                 /\ lastResponse'[1].body = [ error |-> "Session already completed" ]
                 /\ UNCHANGED <<interviewSessions, sessionAnswers, sessionFeedback>>

\* C30: a session's status only moves from in_progress to completed and never
\* back; a completed session has exactly one feedback record and a session in
\* progress none; a complete request on a completed session is rejected and leaves
\* the stored score and feedback as they are.
C30_CompletedOnce == [][CompletedStaysCompleted]_vars

\* A complete request on a completed session has been rejected.
C30_Witness ==
    /\ lastResponse # None
    /\ lastResponse[1].route = "complete"
    /\ lastResponse[1].status = 400
    /\ \E sessionId \in DOMAIN interviewSessions :
          /\ lastResponse[1].sessionId = sessionId
          /\ interviewSessions[sessionId].status = "completed"
          /\ interviewSessions[sessionId].score # None
          /\ Len(AnswerRows(sessionAnswers, sessionId)) > 0

====
